---------------------------- MODULE Spec2Model ----------------------------
(***************************************************************************)
(* A model of the rust-actions workflow engine                             *)
(* (crates/rust-actions/src): the scheduler (toposort_jobs), the           *)
(* expression evaluator (expr.rs), the execution engine (runner.rs), the   *)
(* workflow validation (validate.rs), the virtual clock (clock.rs) and the *)
(* seeded random source (determinism.rs).                                  *)
(*                                                                         *)
(* The specifications of the module:                                       *)
(*   SpecTopo  toposort_jobs as a pure function of a jobs map and of the   *)
(*             iteration order of its HashMap;                             *)
(*   SpecJob   RustActions::run_job on one job drawn from a rich set of    *)
(*             steps;                                                      *)
(*   Spec      RustActions::run on one workflow directory;                 *)
(*   SpecMatrix   expand_matrix and format_matrix_suffix (matrix.rs) as    *)
(*             pure functions of a matrix;                                 *)
(*   SpecFileRef  is_file_ref and parse_file_ref (workflow_registry.rs)    *)
(*             as pure functions of a `uses` string;                       *)
(*   SpecExpr  evaluate_value and value_contains (expr.rs) as pure         *)
(*             functions of a JSON value and a context;                    *)
(*   SpecValidate  validate_registry (validate.rs) as a pure function of   *)
(*             a registry and of its HashMaps' iteration orders;           *)
(*   SpecClock  a VirtualClock shared by threads that hold clones of it,   *)
(*             one atomic access per step;                                 *)
(*   SpecRng   two SeededRng instances receiving the same calls;           *)
(*   SpecPath  evaluate and evaluate_operand (expr.rs) on one path under   *)
(*             steps, needs or jobs;                                       *)
(*   SpecEvaluate  evaluate (expr.rs) on the characters of a string and    *)
(*             of the env values.                                          *)
(***************************************************************************)
EXTENDS Integers, Sequences, FiniteSets, TLC

VARIABLES
    \* ---- toposort_jobs (SpecTopo) ----
    tJobs,      \* the jobs map handed to toposort_jobs: name -> Job
    tKeys,      \* jobs.keys(): the HashMap's iteration order
    tOut,       \* <<>> before the call, <<Result<Vec<String>>>> after it
    \* ---- RustActions (Spec, SpecJob) ----
    dir,        \* the parsed workflows directory: Seq of [path, wf]
    single,     \* self.single_workflow: <<>> or <<index in dir of the one file to run>>
    hooks,      \* self.hooks: the HookRegistry the engine runs its hooks from
    pc,         \* the engine's position
    run,        \* locals of run(): workflows left, all_results, totals, exit
    wfr,        \* locals of run_workflow(): workflow, job_order, job_outputs, job_results, rows
    ref,        \* locals of run_file_ref_job()
    job,        \* locals of run_job() (and of the per-job loop body of run_file_ref_job)
    worlds,     \* number of worlds created so far by W::new()
    events,     \* observable trace: hooks run, callables dispatched, worlds created
    \* ---- pure functions (SpecMatrix, SpecFileRef, SpecExpr, SpecValidate, SpecPath,
    \*      SpecEvaluate) ----
    arg,        \* the arguments of the function under study
    ret,        \* <<>> before the call, then what the function returned
    \* ---- VirtualClock (SpecClock) ----
    nanos,      \* the AtomicU64 every clone of the clock shares
    threads,    \* per thread that holds a clone: the operations it has completed
    readings,   \* the operations completed on the clock, in the order of their atomic accesses
    \* ---- SeededRng (SpecRng) ----
    rngs,       \* the instances: the generator's state and the seed field of each
    draws       \* per instance, the calls made on it since it was created and what they returned

topoVars == <<tJobs, tKeys, tOut>>
runVars == <<dir, single, hooks, pc, run, wfr, ref, job, worlds, events>>
pureVars == <<arg, ret>>
clockVars == <<nanos, threads, readings>>
rngVars == <<rngs, draws>>
libVars == <<clockVars, rngVars>>
vars == <<tJobs, tKeys, tOut, dir, single, hooks, pc, run, wfr, ref, job, worlds, events, arg, ret,
          nanos, threads, readings, rngs, draws>>

---------------------------------------------------------------------------
(* Bounds of the model *)

\* longest `needs` list of a job drawn for toposort_jobs
MaxNeeds == 2
\* most steps of the job drawn for run_job
MaxSteps == 3

\* job names of the drawn workflows
JobNames == {"a", "b", "c"}

---------------------------------------------------------------------------
(* Generic helpers: HashMap<String, _> as a function with a finite domain *)

EmptyMap == [x \in {} |-> 0]

Put(m, k, v) == [x \in (DOMAIN m) \cup {k} |-> IF x = k THEN v ELSE m[x]]

\* Option<T>: <<>> is None, <<x>> is Some(x)
None == <<>>
Some(x) == <<x>>
IsSome(o) == o # <<>>

SeqsUpTo(S, n) == UNION {[1..k -> S] : k \in 0..n}

Perms(S) == {p \in [1..Cardinality(S) -> S] : \A i, j \in 1..Cardinality(S) : p[i] = p[j] => i = j}

Range(s) == {s[i] : i \in 1..Len(s)}

RECURSIVE Join(_, _)
Join(names, sep) ==
    IF names = <<>> THEN ""
    ELSE IF Len(names) = 1 THEN names[1]
    ELSE names[1] \o sep \o Join(Tail(names), sep)

---------------------------------------------------------------------------
(* serde_json::Value.  Every value is a record of the same five fields, so  *)
(* that any two values can be compared.  A string is the sequence of the    *)
(* parts the regex \$\{\{\s*(.+?)\s*\}\} cuts it into: literal text         *)
(* (Lit) and `${{ expr }}` occurrences (Ex), adjacent literals merged.      *)

VNull == [k |-> "null", n |-> 0, s |-> <<>>, items |-> <<>>, fields |-> EmptyMap]
VBool(b) == [k |-> "bool", n |-> IF b THEN 1 ELSE 0, s |-> <<>>, items |-> <<>>, fields |-> EmptyMap]
VNum(i) == [k |-> "num", n |-> i, s |-> <<>>, items |-> <<>>, fields |-> EmptyMap]
VString(parts) == [k |-> "str", n |-> 0, s |-> parts, items |-> <<>>, fields |-> EmptyMap]
VArr(items) == [k |-> "arr", n |-> 0, s |-> <<>>, items |-> items, fields |-> EmptyMap]
VObj(fields) == [k |-> "obj", n |-> 0, s |-> <<>>, items |-> <<>>, fields |-> fields]

Lit(text) == [lit |-> text, e |-> <<>>]
Ex(expr) == [lit |-> "", e |-> <<expr>>]
IsEx(part) == part.e # <<>>

\* a string without any `${{ }}`
Str(text) == IF text = "" THEN <<>> ELSE <<Lit(text)>>
VStr(text) == VString(Str(text))

\* an operand of a comparison: a path (a.b.c) or a literal value
PathOp(path) == [path |-> path, lit |-> <<>>]
LitOp(v) == [path |-> <<>>, lit |-> <<v>>]
NoOp == [path |-> <<>>, lit |-> <<>>]

\* the text between `${{` and `}}`: a path, or LEFT OP RIGHT
PathExpr(path) == [l |-> PathOp(path), op |-> "", r |-> NoOp]
BoolExpr(l, op, r) == [l |-> l, op |-> op, r |-> r]

\* the keys of the model's objects and maps, in the order of BTreeMap<String, _>
SortedKeys == <<"id", "in", "k", "n", "v", "w", "x", "y", "z">>

KeysOf(m) == SelectSeq(SortedKeys, LAMBDA key : key \in DOMAIN m)

RECURSIVE to_json(_)
RECURSIVE ItemsJson(_)
RECURSIVE FieldsJson(_, _)
RECURSIVE Text(_)

OperandText(o) == IF o.lit # <<>> THEN to_json(o.lit[1]) ELSE Join(o.path, ".")

ExprText(e) ==
    IF e.op = "" THEN OperandText(e.l)
    ELSE OperandText(e.l) \o " " \o e.op \o " " \o OperandText(e.r)

\* the characters of a string
Text(parts) ==
    IF parts = <<>> THEN ""
    ELSE (IF IsEx(Head(parts)) /\ Head(parts).lit = ""
          THEN "${{ " \o ExprText(Head(parts).e[1]) \o " }}"
          ELSE Head(parts).lit) \o Text(Tail(parts))

ItemsJson(items) ==
    IF items = <<>> THEN ""
    ELSE to_json(Head(items)) \o (IF Len(items) > 1 THEN "," ELSE "") \o ItemsJson(Tail(items))

FieldsJson(keys, m) ==
    IF keys = <<>> THEN ""
    ELSE "\"" \o Head(keys) \o "\":" \o to_json(m[Head(keys)])
           \o (IF Len(keys) > 1 THEN "," ELSE "") \o FieldsJson(Tail(keys), m)

\* impl Display for Value: compact JSON
to_json(v) ==
    CASE v.k = "null" -> "null"
      [] v.k = "bool" -> IF v.n = 1 THEN "true" ELSE "false"
      [] v.k = "num" -> ToString(v.n)
      [] v.k = "str" -> "\"" \o Text(v.s) \o "\""
      [] v.k = "arr" -> "[" \o ItemsJson(v.items) \o "]"
      [] OTHER -> "{" \o FieldsJson(KeysOf(v.fields), v.fields) \o "}"

\* adjacent literal parts merged, empty ones dropped
RECURSIVE Normalize(_)
Normalize(parts) ==
    IF parts = <<>> THEN <<>>
    ELSE LET h == Head(parts)
             t == Normalize(Tail(parts)) IN
         IF IsEx(h) THEN <<h>> \o t
         ELSE IF h.lit = "" THEN t
         ELSE IF t # <<>> /\ ~IsEx(Head(t)) THEN <<Lit(h.lit \o Head(t).lit)>> \o Tail(t)
         ELSE <<h>> \o t

---------------------------------------------------------------------------
(* The regex \$\{\{\s*(.+?)\s*\}\} on the characters of a string.  The      *)
(* whitespace of the model's strings is the space.                          *)

\* the first position at or after i that holds no space
RECURSIVE SkipSpaces(_, _)
SkipSpaces(text, i) ==
    IF i <= Len(text) /\ SubSeq(text, i, i) = " " THEN SkipSpaces(text, i + 1) ELSE i

At(text, i, word) ==
    i + Len(word) - 1 <= Len(text) /\ SubSeq(text, i, i + Len(word) - 1) = word

\* \s*\}\} matches from position i
ClosesAt(text, i) == At(text, SkipSpaces(text, i), "}}")

\* the captures (.+?) may take when it starts at s: it ends at q
CaptureEnds(text, s) == {q \in s..Len(text) : ClosesAt(text, q + 1)}

\* the starts the greedy leading \s* leaves to the capture, given `${{` at i
CaptureStarts(text, i) ==
    {s \in (i + 3)..SkipSpaces(text, i + 3) : CaptureEnds(text, s) # {}}

Max(S) == CHOOSE x \in S : \A y \in S : y <= x
Min(S) == CHOOSE x \in S : \A y \in S : x <= y

\* the match that starts at i: the leading \s* takes the most it can, the
\* capture the least
MatchAt(text, i) ==
    IF ~At(text, i, "${{") \/ CaptureStarts(text, i) = {} THEN <<>>
    ELSE LET s == Max(CaptureStarts(text, i))
             q == Min(CaptureEnds(text, s)) IN
         <<[start |-> i, capture |-> SubSeq(text, s, q),
            end |-> SkipSpaces(text, q + 1) + 1]>>

\* str::split(sep) for a one-character separator
RECURSIVE split(_, _)
split(text, sep) ==
    IF \A i \in 1..Len(text) : SubSeq(text, i, i) # sep THEN <<text>>
    ELSE LET i == Min({j \in 1..Len(text) : SubSeq(text, j, j) = sep}) IN
         <<SubSeq(text, 1, i - 1)>> \o split(SubSeq(text, i + 1, Len(text)), sep)

\* one occurrence of `${{ expr }}`: its characters (cap[0]) and its
\* expression (cap[1]), which evaluate_expr splits at the dots
Captured(text, m) ==
    [lit |-> SubSeq(text, m.start, m.end), e |-> <<PathExpr(split(m.capture, "."))>>]

\* Regex::captures_iter: the matches from left to right, none overlapping,
\* and the literal text between them
RECURSIVE captures_from(_, _)
captures_from(text, pos) ==
    LET starts == {i \in pos..Len(text) : MatchAt(text, i) # <<>>} IN
    IF starts = {} THEN <<Lit(SubSeq(text, pos, Len(text)))>>
    ELSE LET m == MatchAt(text, Min(starts))[1] IN
         <<Lit(SubSeq(text, pos, m.start - 1)), Captured(text, m)>>
             \o captures_from(text, m.end + 1)

captures_iter(text) == Normalize(captures_from(text, 1))

\* Value::String of the characters `text`
StringValue(text) == VString(captures_iter(text))

\* str::replace on the characters: every occurrence of `from`, from left to
\* right and none overlapping, becomes `to`
RECURSIVE ReplaceAll(_, _, _)
ReplaceAll(text, from, to) ==
    IF from = "" \/ Len(text) < Len(from) THEN text
    ELSE IF SubSeq(text, 1, Len(from)) = from
    THEN to \o ReplaceAll(SubSeq(text, Len(from) + 1, Len(text)), from, to)
    ELSE SubSeq(text, 1, 1) \o ReplaceAll(SubSeq(text, 2, Len(text)), from, to)

\* result.replace(full_match, &value): `from` is one `${{ }}` occurrence of
\* the input, `to` the value of its expression; the occurrences that the new
\* characters hold are those the regex finds in them
replace(parts, from, to) ==
    captures_iter(ReplaceAll(Text(parts), Text(<<from>>), Text(to)))

---------------------------------------------------------------------------
(* Result<T> and the errors of expr.rs *)

Ok(v) == [ok |-> TRUE, val |-> <<v>>, err |-> <<>>]
Err(kind, msg) == [ok |-> FALSE, val |-> <<>>, err |-> <<[kind |-> kind, msg |-> msg]>>]

ok_or(opt, kind, msg) == IF opt # <<>> THEN Ok(opt[1]) ELSE Err(kind, msg)

\* result.map(f) for a constructor f given by its kind
MapOk(r, kind) ==
    IF ~r.ok THEN r
    ELSE CASE kind = "str" -> Ok(VString(r.val[1]))
           [] kind = "arr" -> Ok(VArr(r.val[1]))
           [] OTHER -> Ok(VObj(r.val[1]))

\* HashMap::get
Get(m, key) == IF key \in DOMAIN m THEN <<m[key]>> ELSE <<>>

---------------------------------------------------------------------------
(* outputs.rs / expr.rs: StepOutputs and JobOutputs are maps key -> Value *)

\* StepOutputs::get_string, JobOutputs::get_string: Some(String)
\* (a String is cloned, any other value is written as JSON)
StringOf(v) == IF v.k = "str" THEN v.s ELSE Str(to_json(v))

get_string(outputs, key) ==
    IF key \notin DOMAIN outputs THEN <<>> ELSE <<StringOf(outputs[key])>>

\* expr.rs value_to_string
value_to_string(v) == StringOf(v)

\* StepOutputs::to_value, JobOutputs::to_value
to_value(outputs) == VObj(outputs)

\* ExprContext::new
NewContext ==
    [env |-> EmptyMap, steps |-> EmptyMap, background |-> EmptyMap,
     containers |-> EmptyMap, outputs |-> <<>>, needs |-> EmptyMap,
     matrix |-> EmptyMap, jobs |-> EmptyMap]

\* ExprContext::with_outputs
with_outputs(ctx, outputs) == [ctx EXCEPT !.outputs = <<outputs>>]

\* and_then(|o| o.get_string(field)) on an Option<map>
AndGetString(opt, field) == IF opt = <<>> THEN <<>> ELSE get_string(opt[1], field)
AndGet(opt, field) == IF opt = <<>> THEN <<>> ELSE Get(opt[1], field)
MapToValue(opt) == IF opt = <<>> THEN <<>> ELSE <<to_value(opt[1])>>

\* expr.rs evaluate_expr: the value of `${{ expr }}` as a String
evaluate_expr(e, ctx) ==
    LET p == IF e.op = "" THEN e.l.path ELSE <<>> IN
    CASE Len(p) = 2 /\ p[1] = "env" ->
            ok_or(Get(ctx.env, p[2]), "EnvVar", p[2])
      [] Len(p) = 4 /\ p[1] = "steps" /\ p[3] = "outputs" ->
            ok_or(AndGetString(Get(ctx.steps, p[2]), p[4]), "Expression", "Step output not found")
      [] Len(p) = 4 /\ p[1] = "background" /\ p[3] = "outputs" ->
            ok_or(AndGetString(Get(ctx.background, p[2]), p[4]), "Expression", "Background output not found")
      [] Len(p) = 3 /\ p[1] = "containers" /\ p[3] \in {"url", "host", "port"} ->
            ok_or(AndGetString(Get(ctx.containers, p[2]), p[3]), "Expression", "Container not found")
      [] Len(p) = 4 /\ p[1] = "needs" /\ p[3] = "outputs" ->
            ok_or(AndGetString(Get(ctx.needs, p[2]), p[4]), "Expression", "Job output not found")
      [] Len(p) = 2 /\ p[1] = "matrix" ->
            IF p[2] \in DOMAIN ctx.matrix THEN Ok(value_to_string(ctx.matrix[p[2]]))
            ELSE Err("Expression", "Matrix key not found")
      [] Len(p) = 4 /\ p[1] = "jobs" /\ p[3] = "outputs" ->
            ok_or(AndGetString(Get(ctx.jobs, p[2]), p[4]), "Expression", "Job output not found")
      [] OTHER -> Err("Expression", "Unknown expression")

\* expr.rs evaluate: every `${{ expr }}` of the input, in order, replaced in
\* the result by the value of its expression
RECURSIVE evaluate_captures(_, _, _)
evaluate_captures(caps, result, ctx) ==
    IF caps = <<>> THEN Ok(result)
    ELSE LET Replaced(value) ==
                 IF ~value.ok THEN value
                 ELSE evaluate_captures(Tail(caps), replace(result, Head(caps), value.val[1]), ctx)
         IN Replaced(evaluate_expr(Head(caps).e[1], ctx))

evaluate(input, ctx) == evaluate_captures(SelectSeq(input, IsEx), input, ctx)

\* expr.rs evaluate_value
RECURSIVE evaluate_value(_, _)
RECURSIVE evaluate_items(_, _)
RECURSIVE evaluate_fields(_, _, _)

\* collect::<Result<Vec<_>>>: the first error, else the values in order
PushItem(h, t) ==
    IF ~h.ok THEN h ELSE IF ~t.ok THEN t ELSE Ok(<<h.val[1]>> \o t.val[1])

\* new_map.insert(k, evaluate_value(v)?)
InsertField(key, h, t) ==
    IF ~h.ok THEN h ELSE IF ~t.ok THEN t ELSE Ok(Put(t.val[1], key, h.val[1]))

evaluate_items(items, ctx) ==
    IF items = <<>> THEN Ok(<<>>)
    ELSE PushItem(evaluate_value(Head(items), ctx), evaluate_items(Tail(items), ctx))

evaluate_fields(keys, m, ctx) ==
    IF keys = <<>> THEN Ok(EmptyMap)
    ELSE InsertField(Head(keys), evaluate_value(m[Head(keys)], ctx),
                     evaluate_fields(Tail(keys), m, ctx))

\* evaluate_value writing every leaf that is not a string as its JSON text
evaluate_value_stringifying(value, ctx) ==
    CASE value.k = "str" ->
            MapOk(evaluate(value.s, ctx), "str")
      [] value.k = "obj" ->
            MapOk(evaluate_fields(KeysOf(value.fields), value.fields, ctx), "obj")
      [] value.k = "arr" ->
            MapOk(evaluate_items(value.items, ctx), "arr")
      [] OTHER -> Ok(VStr(to_json(value)))

evaluate_value(value, ctx) ==
    CASE value.k = "str" ->
            MapOk(evaluate(value.s, ctx), "str")
      [] value.k = "obj" ->
            MapOk(evaluate_fields(KeysOf(value.fields), value.fields, ctx), "obj")
      [] value.k = "arr" ->
            MapOk(evaluate_items(value.items, ctx), "arr")
      [] OTHER -> Ok(value)

\* expr.rs navigate_value; an array index is a path segment that parses as usize
IndexOf(seg) == IF \E i \in 0..9 : ToString(i) = seg
                THEN <<CHOOSE i \in 0..9 : ToString(i) = seg>> ELSE <<>>

RECURSIVE navigate_value(_, _)

\* navigate_value(base?, rest)
Descend(base, rest) == IF ~base.ok THEN base ELSE navigate_value(base.val[1], rest)

\* arr.get(index): the item, or the out-of-bounds error
ItemAt(items, index) ==
    IF index = <<>> THEN Err("Expression", "Invalid array index")
    ELSE IF index[1] + 1 > Len(items) THEN Err("Expression", "Array index out of bounds")
    ELSE Ok(items[index[1] + 1])

navigate_value(value, path) ==
    IF path = <<>> THEN Ok(value)
    ELSE CASE value.k = "obj" ->
                 IF path[1] \in DOMAIN value.fields
                 THEN navigate_value(value.fields[path[1]], Tail(path))
                 ELSE Err("Expression", "Field not found")
           [] value.k = "arr" ->
                 Descend(ItemAt(value.items, IndexOf(path[1])), Tail(path))
           [] OTHER -> Err("Expression", "Cannot navigate into non-object/array value")

\* expr.rs evaluate_expr_value: the value of a path operand
evaluate_expr_value(p, ctx) ==
    CASE p = <<"outputs">> ->
            ok_or(MapToValue(ctx.outputs), "Expression", "No outputs context available")
      [] Len(p) = 2 /\ p[1] = "outputs" ->
            ok_or(AndGet(ctx.outputs, p[2]), "Expression", "Output not found")
      [] Len(p) > 2 /\ p[1] = "outputs" ->
            Descend(ok_or(AndGet(ctx.outputs, p[2]), "Expression", "Output not found"),
                    SubSeq(p, 3, Len(p)))
      [] Len(p) = 2 /\ p[1] = "env" ->
            IF p[2] \in DOMAIN ctx.env THEN Ok(VString(ctx.env[p[2]])) ELSE Err("EnvVar", p[2])
      [] Len(p) = 3 /\ p[1] = "steps" /\ p[3] = "outputs" ->
            ok_or(MapToValue(Get(ctx.steps, p[2])), "Expression", "Step not found")
      [] Len(p) = 4 /\ p[1] = "steps" /\ p[3] = "outputs" ->
            ok_or(AndGet(Get(ctx.steps, p[2]), p[4]), "Expression", "Step output not found")
      [] Len(p) = 3 /\ p[1] = "containers" ->
            IF p[2] \notin DOMAIN ctx.containers THEN Err("Expression", "Container not found")
            ELSE IF p[3] \in {"url", "host", "port"} THEN Ok(ctx.containers[p[2]][p[3]])
            ELSE Err("Expression", "Unknown container property")
      [] Len(p) = 3 /\ p[1] = "needs" /\ p[3] = "outputs" ->
            ok_or(MapToValue(Get(ctx.needs, p[2])), "Expression", "Job not found in needs")
      [] Len(p) = 4 /\ p[1] = "needs" /\ p[3] = "outputs" ->
            ok_or(AndGet(Get(ctx.needs, p[2]), p[4]), "Expression", "Job output not found")
      [] Len(p) > 4 /\ p[1] = "needs" /\ p[3] = "outputs" ->
            Descend(ok_or(AndGet(Get(ctx.needs, p[2]), p[4]), "Expression", "Job output not found"),
                    SubSeq(p, 5, Len(p)))
      [] Len(p) = 2 /\ p[1] = "matrix" ->
            ok_or(Get(ctx.matrix, p[2]), "Expression", "Matrix key not found")
      [] Len(p) = 3 /\ p[1] = "jobs" /\ p[3] = "outputs" ->
            ok_or(MapToValue(Get(ctx.jobs, p[2])), "Expression", "Job not found")
      [] Len(p) = 4 /\ p[1] = "jobs" /\ p[3] = "outputs" ->
            ok_or(AndGet(Get(ctx.jobs, p[2]), p[4]), "Expression", "Job output not found")
      [] OTHER -> Err("Expression", "Unknown expression")

\* expr.rs evaluate_operand
evaluate_operand(operand, ctx) ==
    IF operand.lit # <<>> THEN Ok(operand.lit[1])
    ELSE evaluate_expr_value(operand.path, ctx)

\* expr.rs value_to_f64 (the model's numbers are the integers -9..99)
ParseNum(text) == IF \E i \in -9..99 : ToString(i) = text
                  THEN <<CHOOSE i \in -9..99 : ToString(i) = text>> ELSE <<>>

value_to_f64(v) ==
    CASE v.k = "num" -> <<v.n>>
      [] v.k = "str" -> IF \E part \in Range(v.s) : IsEx(part) THEN <<>> ELSE ParseNum(Text(v.s))
      [] OTHER -> <<>>

\* expr.rs value_contains
\* str::contains
IsSubstring(n, h) ==
    \/ n = ""
    \/ \E i \in 1..(Len(h) - Len(n) + 1) : SubSeq(h, i, i + Len(n) - 1) = n

RECURSIVE value_contains(_, _)

\* value_contains descending into every field of an object, a leaf included
value_contains_descending(haystack, needle) ==
    CASE haystack.k = "obj" /\ needle.k = "obj" ->
            \A key \in DOMAIN needle.fields :
                /\ key \in DOMAIN haystack.fields
                /\ value_contains(haystack.fields[key], needle.fields[key])
      [] haystack.k = "arr" /\ needle.k = "arr" ->
            \A i \in 1..Len(needle.items) : \E j \in 1..Len(haystack.items) :
                IF needle.items[i].k = "obj"
                THEN value_contains(haystack.items[j], needle.items[i])
                ELSE haystack.items[j] = needle.items[i]
      [] haystack.k = "arr" ->
            \E j \in 1..Len(haystack.items) :
                IF needle.k = "obj" THEN value_contains(haystack.items[j], needle)
                ELSE haystack.items[j] = needle
      [] haystack.k = "str" /\ needle.k = "str" -> IsSubstring(Text(needle.s), Text(haystack.s))
      [] OTHER -> FALSE

value_contains(haystack, needle) ==
    CASE haystack.k = "obj" /\ needle.k = "obj" ->
            \A key \in DOMAIN needle.fields :
                /\ key \in DOMAIN haystack.fields
                /\ LET v == needle.fields[key]
                       hv == haystack.fields[key] IN
                   IF v.k \in {"obj", "arr"} THEN value_contains(hv, v) ELSE hv = v
      [] haystack.k = "arr" /\ needle.k = "arr" ->
            \A i \in 1..Len(needle.items) : \E j \in 1..Len(haystack.items) :
                IF needle.items[i].k = "obj"
                THEN value_contains(haystack.items[j], needle.items[i])
                ELSE haystack.items[j] = needle.items[i]
      [] haystack.k = "arr" ->
            \E j \in 1..Len(haystack.items) :
                IF needle.k = "obj" THEN value_contains(haystack.items[j], needle)
                ELSE haystack.items[j] = needle
      [] haystack.k = "str" /\ needle.k = "str" -> IsSubstring(Text(needle.s), Text(haystack.s))
      [] OTHER -> FALSE

NumericOp(l, r, op) ==
    IF l = <<>> \/ r = <<>> THEN FALSE
    ELSE CASE op = ">" -> l[1] > r[1]
           [] op = "<" -> l[1] < r[1]
           [] op = ">=" -> l[1] >= r[1]
           [] OTHER -> l[1] <= r[1]

compare_numeric(left, right, op) == NumericOp(value_to_f64(left), value_to_f64(right), op)

\* expr.rs compare_values
compare_values(left, right, op) ==
    CASE op = "==" -> left = right
      [] op = "!=" -> left # right
      [] op = "contains" -> value_contains(left, right)
      [] op \in {">", "<", ">=", "<="} -> compare_numeric(left, right, op)
      [] OTHER -> FALSE

\* Ok(compare_values(&left_val?, &right_val?, op))
Compared(left_val, right_val, op) ==
    IF ~left_val.ok THEN left_val
    ELSE IF ~right_val.ok THEN right_val
    ELSE Ok(compare_values(left_val.val[1], right_val.val[1], op))

\* expr.rs evaluate_bool_expr
evaluate_bool_expr(e, ctx) ==
    IF e.op = "" THEN Err("Expression", "No comparison operator found in expression")
    ELSE Compared(evaluate_operand(e.l, ctx), evaluate_operand(e.r, ctx), e.op)

\* expr.rs evaluate_assertion: the first `${{ }}` of the string is the assertion
evaluate_assertion(assertion, ctx) ==
    LET caps == SelectSeq(assertion, IsEx) IN
    IF caps = <<>> THEN Err("Expression", "Invalid assertion format")
    ELSE evaluate_bool_expr(caps[1].e[1], ctx)

---------------------------------------------------------------------------
(* parser.rs: JobNeeds *)

NeedsNone == [tag |-> "None", v |-> <<>>]
NeedsSingle(s) == [tag |-> "Single", v |-> <<s>>]
NeedsMultiple(v) == [tag |-> "Multiple", v |-> v]

as_vec(needs) ==
    CASE needs.tag = "None" -> <<>>
      [] needs.tag = "Single" -> <<needs.v[1]>>
      [] OTHER -> needs.v

JobNeedsOver(names, n) ==
    {NeedsNone} \cup {NeedsSingle(s) : s \in names}
        \cup {NeedsMultiple(v) : v \in SeqsUpTo(names, n)}

---------------------------------------------------------------------------
(* error.rs: the two errors of the scheduler.  `chain` is path.join(" -> "); *)
(* `path` keeps the Vec<String> the chain was joined from.                  *)

\* an error whose chain stops before the job that closes the cycle
CircularDependencyOpen(path) ==
    [kind |-> "CircularDependency",
     chain |-> Join(SubSeq(path, 1, Len(path) - 1), " -> "),
     path |-> SubSeq(path, 1, Len(path) - 1), job |-> "", dependency |-> ""]

CircularDependency(path) ==
    [kind |-> "CircularDependency", chain |-> Join(path, " -> "), path |-> path,
     job |-> "", dependency |-> ""]

\* an error that takes the dependency for the job and the job for the dependency
JobDependencyNotFoundSwapped(j, dep) ==
    [kind |-> "JobDependencyNotFound", chain |-> "", path |-> <<>>,
     job |-> dep, dependency |-> j]

JobDependencyNotFound(j, dep) ==
    [kind |-> "JobDependencyNotFound", chain |-> "", path |-> <<>>,
     job |-> j, dependency |-> dep]

---------------------------------------------------------------------------
(* runner.rs: toposort_jobs.  st holds the four &mut of visit and the error *)
(* that `?` propagates (err = <<>>: Ok so far).                             *)

RECURSIVE visit(_, _, _)
RECURSIVE visit_deps(_, _, _, _)

\* a traversal that passes over a dependency that is no job of the workflow
visit_deps_lenient(name, jobs, deps, st) ==
    IF deps = <<>> THEN st
    ELSE IF Head(deps) \notin DOMAIN jobs THEN visit_deps(name, jobs, Tail(deps), st)
    ELSE LET st1 == visit(Head(deps), jobs, st) IN
         IF st1.err # <<>> THEN st1
         ELSE visit_deps(name, jobs, Tail(deps), st1)

visit_deps(name, jobs, deps, st) ==
    IF deps = <<>> THEN st
    ELSE LET dep == Head(deps) IN
         IF dep \notin DOMAIN jobs
         THEN [st EXCEPT !.err = <<JobDependencyNotFound(name, dep)>>]
         ELSE LET st1 == visit(dep, jobs, st) IN
              IF st1.err # <<>> THEN st1
              ELSE visit_deps(name, jobs, Tail(deps), st1)

\* a traversal that emits a job before the jobs it needs
visit_preorder(name, jobs, st) ==
    IF name \in st.temp_visited
    THEN [st EXCEPT !.path = Append(st.path, name),
                    !.err = <<CircularDependency(Append(st.path, name))>>]
    ELSE IF name \in st.visited THEN st
    ELSE LET st1 == [st EXCEPT !.temp_visited = @ \cup {name},
                               !.path = Append(@, name),
                               !.result = Append(@, name)]
             st2 == IF name \in DOMAIN jobs
                    THEN visit_deps(name, jobs, as_vec(jobs[name].needs), st1)
                    ELSE st1
         IN IF st2.err # <<>> THEN st2
            ELSE [st2 EXCEPT !.path = SubSeq(@, 1, Len(@) - 1),
                             !.temp_visited = @ \ {name},
                             !.visited = @ \cup {name}]

visit(name, jobs, st) ==
    IF name \in st.temp_visited
    THEN [st EXCEPT !.path = Append(st.path, name),
                    !.err = <<CircularDependency(Append(st.path, name))>>]
    ELSE IF name \in st.visited THEN st
    ELSE LET st1 == [st EXCEPT !.temp_visited = @ \cup {name},
                               !.path = Append(@, name)]
             st2 == IF name \in DOMAIN jobs
                    THEN visit_deps(name, jobs, as_vec(jobs[name].needs), st1)
                    ELSE st1
         IN IF st2.err # <<>> THEN st2
            ELSE [st2 EXCEPT !.path = SubSeq(@, 1, Len(@) - 1),
                             !.temp_visited = @ \ {name},
                             !.visited = @ \cup {name},
                             !.result = Append(@, name)]

RECURSIVE toposort_loop(_, _, _)
toposort_loop(job_names, jobs, st) ==
    IF job_names = <<>> \/ st.err # <<>> THEN st
    ELSE toposort_loop(Tail(job_names), jobs,
                       visit(Head(job_names), jobs, [st EXCEPT !.path = <<>>]))

\* Result<Vec<String>>: Ok(order) is [ok |-> TRUE, order, err |-> <<>>],
\* Err(e) is [ok |-> FALSE, order |-> <<>>, err |-> <<e>>]
toposort_jobs(jobs, job_names) ==
    LET st == toposort_loop(job_names, jobs,
                  [visited |-> {}, temp_visited |-> {}, result |-> <<>>,
                   path |-> <<>>, err |-> <<>>])
    IN IF st.err # <<>>
       THEN [ok |-> FALSE, order |-> <<>>, err |-> st.err]
       ELSE [ok |-> TRUE, order |-> st.result, err |-> <<>>]

---------------------------------------------------------------------------
(* matrix.rs: expand_matrix.  `keys` is the iteration order of the           *)
(* dimensions HashMap.                                                       *)

values_equal(a, b) == a = b

\* an exclude entry that also matches when the combination lacks its key
matches_exclude_lenient(combo, exclude) ==
    \A key \in DOMAIN exclude :
        key \in DOMAIN combo => values_equal(combo[key], exclude[key])

matches_exclude(combo, exclude) ==
    \A key \in DOMAIN exclude :
        key \in DOMAIN combo /\ values_equal(combo[key], exclude[key])

\* only the first exclude entry is looked at
matches_first_exclude(combo, excludes) ==
    excludes # <<>> /\ matches_exclude(combo, excludes[1])

matches_any_exclude(combo, excludes) ==
    \E i \in 1..Len(excludes) : matches_exclude(combo, excludes[i])

\* for combo in &result { for value in values { new_result.push(combo + {key: value}) } }
RECURSIVE ExtendCombos(_, _, _)
ExtendCombos(result, key, values) ==
    IF result = <<>> THEN <<>>
    ELSE [i \in 1..Len(values) |-> Put(Head(result), key, values[i])]
            \o ExtendCombos(Tail(result), key, values)

RECURSIVE ProductOver(_, _, _)
ProductOver(keys, dimensions, result) ==
    IF keys = <<>> THEN result
    ELSE ProductOver(Tail(keys), dimensions, ExtendCombos(result, Head(keys), dimensions[Head(keys)]))

cartesian_product(dimensions, keys) ==
    IF DOMAIN dimensions = {} THEN <<>>
    ELSE ProductOver(keys, dimensions, <<EmptyMap>>)

\* an expansion that returns the combinations as they are, even when none is left
expand_matrix_unclamped(matrix, keys) ==
    IF DOMAIN matrix.dimensions = {} /\ matrix.include = <<>> THEN <<EmptyMap>>
    ELSE SelectSeq(cartesian_product(matrix.dimensions, keys),
                   LAMBDA combo : ~matches_any_exclude(combo, matrix.exclude))
            \o matrix.include

expand_matrix_inner(matrix, keys) ==
    IF DOMAIN matrix.dimensions = {} /\ matrix.include = <<>> THEN <<EmptyMap>>
    ELSE LET retained == SelectSeq(cartesian_product(matrix.dimensions, keys),
                                   LAMBDA combo : ~matches_any_exclude(combo, matrix.exclude))
             combinations == retained \o matrix.include
         IN IF combinations = <<>> THEN <<EmptyMap>> ELSE combinations

expand_matrix(strategy, keys) == expand_matrix_inner(strategy.matrix, keys)

\* matrix.rs format_value
format_value(value) == IF value.k = "str" THEN Text(value.s) ELSE to_json(value)

\* the characters of the model's strings in the order of their bytes
ASCII == " \",-.0123456789:=[]_abcdefghijklmnopqrstuvwxyz{}"

byte(c) == CHOOSE i \in 1..Len(ASCII) : SubSeq(ASCII, i, i) = c

\* impl Ord for str: a < b, comparing byte by byte
RECURSIVE str_lt(_, _)
str_lt(a, b) ==
    IF b = "" THEN FALSE
    ELSE IF a = "" THEN TRUE
    ELSE IF Head(a) = Head(b) THEN str_lt(Tail(a), Tail(b))
    ELSE byte(Head(a)) < byte(Head(b))

\* Vec<String>::sort
RECURSIVE SortedInsert(_, _)
SortedInsert(x, sorted) ==
    IF sorted = <<>> THEN <<x>>
    ELSE IF str_lt(x, Head(sorted)) THEN <<x>> \o sorted
    ELSE <<Head(sorted)>> \o SortedInsert(x, Tail(sorted))

RECURSIVE sort(_)
sort(parts) ==
    IF parts = <<>> THEN <<>> ELSE SortedInsert(Head(parts), sort(Tail(parts)))

\* format!("{}={}", k, format_value(v)) for the entries of combo.iter(); `keys`
\* is the iteration order of the HashMap
SuffixParts(combo, keys) ==
    [i \in 1..Len(keys) |-> keys[i] \o "=" \o format_value(combo[keys[i]])]

\* matrix.rs format_matrix_suffix
format_matrix_suffix(combo, keys) ==
    IF DOMAIN combo = {} THEN ""
    ELSE " [" \o Join(sort(SuffixParts(combo, keys)), ", ") \o "]"

---------------------------------------------------------------------------
(* workflow_registry.rs *)

FILE_REF_PREFIX == "@file:"

starts_with(text, prefix) ==
    Len(text) >= Len(prefix) /\ SubSeq(text, 1, Len(prefix)) = prefix

is_file_ref(uses) == starts_with(uses, FILE_REF_PREFIX)

parse_file_ref(uses) ==
    IF ~starts_with(uses, FILE_REF_PREFIX) THEN Err("InvalidFileRef", uses)
    ELSE Ok(SubSeq(uses, Len(FILE_REF_PREFIX) + 1, Len(uses)))

\* WorkflowRegistry::build: the parsed (path, workflow) pairs collected into a map
RegistryBuild(parsed) ==
    [path \in {parsed[i].path : i \in 1..Len(parsed)} |->
        LET last == CHOOSE i \in 1..Len(parsed) :
                        /\ parsed[i].path = path
                        /\ \A k \in 1..Len(parsed) : parsed[k].path = path => k <= i
        IN parsed[last].wf]

\* WorkflowRegistry::resolve_file_ref
resolve_file_ref(registry, uses) ==
    LET path == parse_file_ref(uses) IN
    IF ~path.ok THEN path
    ELSE ok_or(Get(registry, path.val[1]), "WorkflowNotFound", path.val[1])

\* Workflow::is_reusable
is_reusable(wf) == wf.on # <<>> /\ wf.on[1].workflow_call # <<>>

---------------------------------------------------------------------------
(* The step registry of the engine under test and its world.  Three         *)
(* callables are registered:                                                 *)
(*   echo   returns its arguments as its outputs;                            *)
(*   count  increments the world's counter n and returns {n: counter};       *)
(*   fail   returns an error and leaves the world alone.                     *)

StepRegistry == {"echo", "count", "fail"}

\* a factory that hands out the one instance it made first
NewWorldReused(id) == [id |-> 1, n |-> 0]

\* W::new() when it succeeds; `id` tells the instances apart
NewWorld(id) == [id |-> id, n |-> 0]

\* step_fn(world_any, evaluated_args).await: [ok, outputs, world, msg]
step_fn(uses, world, args) ==
    CASE uses = "echo" -> [ok |-> TRUE, outputs |-> args, world |-> world, msg |-> ""]
      [] uses = "count" ->
            [ok |-> TRUE, outputs |-> [key \in {"n"} |-> VNum(world.n + 1)],
             world |-> [world EXCEPT !.n = @ + 1], msg |-> ""]
      [] OTHER -> [ok |-> FALSE, outputs |-> EmptyMap, world |-> world, msg |-> "step failed"]

---------------------------------------------------------------------------
(* runner.rs: StepResult, JobResult, WorkflowResult *)

Passed == [kind |-> "Passed", msg |-> ""]
Failed(msg) == [kind |-> "Failed", msg |-> msg]
Skipped == [kind |-> "Skipped", msg |-> ""]

is_passed(r) == r.kind = "Passed"
is_failed(r) == r.kind = "Failed"

\* a job status that is the status of the job's last step
passed_if_last_passed(job_result) ==
    job_result.steps = <<>> \/ is_passed(job_result.steps[Len(job_result.steps)].result)

\* JobResult::passed
passed(job_result) ==
    \A i \in 1..Len(job_result.steps) : is_passed(job_result.steps[i].result)

steps_passed(job_result) ==
    Cardinality({i \in 1..Len(job_result.steps) : is_passed(job_result.steps[i].result)})

steps_failed(job_result) ==
    Cardinality({i \in 1..Len(job_result.steps) : is_failed(job_result.steps[i].result)})

\* WorkflowResult::jobs_passed, jobs_failed
jobs_passed(wf_result) ==
    Cardinality({i \in 1..Len(wf_result.jobs) : passed(wf_result.jobs[i])})

jobs_failed(wf_result) ==
    Cardinality({i \in 1..Len(wf_result.jobs) : ~passed(wf_result.jobs[i])})

JobResult(name, matrix, steps, outputs) ==
    [name |-> name, matrix |-> matrix, steps |-> steps, outputs |-> outputs]

WorkflowResult(name, jobs) == [name |-> name, jobs |-> jobs]

\* step.name.clone().unwrap_or_else(|| step.uses.clone())
StepName(step) == IF step.name # <<>> THEN step.name[1] ELSE step.uses

---------------------------------------------------------------------------
(* The observable trace.  Each entry tells what ran (ev), for which job and  *)
(* step (0: none), on which world (0: none), and for a callable whether it   *)
(* returned Ok and the arguments it was dispatched with.                     *)

Event(ev, name, step, world, ok, data) ==
    [ev |-> ev, job |-> name, step |-> step, world |-> world, ok |-> ok, data |-> data]

---------------------------------------------------------------------------
(* runner.rs: RustActions::run_step.  Returns the StepResult, the world and  *)
(* the context as the step leaves them, and the trace of the dispatch.       *)

\* the assertions in order up to the first that is not Ok(true): <<>> when
\* all hold, else <<the failure message>>
AssertOutcome(r, label, rest) ==
    IF ~r.ok THEN <<label \o "-assertion error">>
    ELSE IF ~r.val[1] THEN <<label \o "-assertion failed">>
    ELSE rest

RECURSIVE check_asserts(_, _, _)
check_asserts(asserts, ctx, label) ==
    IF asserts = <<>> THEN <<>>
    ELSE AssertOutcome(evaluate_assertion(Head(asserts), ctx), label,
                       check_asserts(Tail(asserts), ctx, label))

StepOut(result, world, ctx, trace) ==
    [result |-> result, world |-> world, ctx |-> ctx, trace |-> trace]

\* run_step after the callable returned Ok: post-assertions (runner.rs 582-600)
PostAsserts(post, world, ctx, trace) ==
    IF post # <<>> THEN StepOut(Failed(post[1]), world, ctx, trace)
    ELSE StepOut(Passed, world, ctx, trace)

\* the trace of step_fn(world_any, evaluated_args).await: the call with its
\* arguments and, when it returned Ok, the return with its outputs
CallTrace(call, args, name, i, world) ==
    <<Event("call", name, i, world.id, call.ok, args)>>
        \o (IF call.ok THEN <<Event("return", name, i, world.id, TRUE, call.outputs)>> ELSE <<>>)

\* a run_step that records the outputs under the step's id only once the
\* post-assertions hold
AfterCallInsertLast(call, step, ctx, trace) ==
    IF ~call.ok THEN StepOut(Failed(call.msg), call.world, ctx, trace)
    ELSE IF check_asserts(step.post_assert, with_outputs(ctx, call.outputs), "Post") # <<>>
    THEN StepOut(Failed("Post-assertion failed"), call.world, ctx, trace)
    ELSE StepOut(Passed, call.world,
                 IF step.id # <<>>
                 THEN [ctx EXCEPT !.steps = Put(@, step.id[1], call.outputs)] ELSE ctx,
                 trace)

\* a run_step that records the (empty) outputs under the step's id even when
\* the callable returned Err
AfterCallInsertOnFailure(call, step, ctx, trace) ==
    IF step.id = <<>>
    THEN (IF ~call.ok THEN StepOut(Failed(call.msg), call.world, ctx, trace)
          ELSE PostAsserts(check_asserts(step.post_assert, with_outputs(ctx, call.outputs), "Post"),
                           call.world, ctx, trace))
    ELSE IF ~call.ok
    THEN StepOut(Failed(call.msg), call.world,
                 [ctx EXCEPT !.steps = Put(@, step.id[1], call.outputs)], trace)
    ELSE PostAsserts(check_asserts(step.post_assert,
                                   with_outputs([ctx EXCEPT !.steps = Put(@, step.id[1], call.outputs)],
                                                call.outputs), "Post"),
                     call.world, [ctx EXCEPT !.steps = Put(@, step.id[1], call.outputs)], trace)

\* run_step from the callable's return on (runner.rs 574-604)
AfterCall(call, step, ctx, trace) ==
    IF ~call.ok THEN StepOut(Failed(call.msg), call.world, ctx, trace)
    ELSE IF step.id # <<>>
    THEN PostAsserts(check_asserts(step.post_assert,
                                   with_outputs([ctx EXCEPT !.steps = Put(@, step.id[1], call.outputs)],
                                                call.outputs), "Post"),
                     call.world, [ctx EXCEPT !.steps = Put(@, step.id[1], call.outputs)], trace)
    ELSE PostAsserts(check_asserts(step.post_assert, with_outputs(ctx, call.outputs), "Post"),
                     call.world, ctx, trace)

\* run_step from the evaluation of the arguments on (runner.rs 568-574)
Dispatch(evaluated_args, name, i, world, step, ctx) ==
    IF ~evaluated_args.ok THEN StepOut(Failed("Args evaluation failed"), world, ctx, <<>>)
    ELSE AfterCall(step_fn(step.uses, world, evaluated_args.val[1]), step, ctx,
                   CallTrace(step_fn(step.uses, world, evaluated_args.val[1]),
                             evaluated_args.val[1], name, i, world))

\* a run_step that dispatches without looking the step up in the registry
AfterPreUnregistered(pre, name, i, world, step, ctx) ==
    IF pre # <<>> THEN StepOut(Failed(pre[1]), world, ctx, <<>>)
    ELSE Dispatch(evaluate_fields(KeysOf(step.with), step.with, ctx), name, i, world, step, ctx)

\* run_step after the pre-assertions (runner.rs 543-566)
AfterPre(pre, name, i, world, step, ctx) ==
    IF pre # <<>> THEN StepOut(Failed(pre[1]), world, ctx, <<>>)
    ELSE IF step.uses \notin StepRegistry
    THEN StepOut(Failed("Step not found"), world, ctx, <<>>)
    ELSE Dispatch(evaluate_fields(KeysOf(step.with), step.with, ctx), name, i, world, step, ctx)

run_step(name, i, world, step, ctx) ==
    AfterPre(check_asserts(step.pre_assert, ctx, "Pre"), name, i, world, step, ctx)

\* the declared outputs whose expression evaluates (runner.rs 510-515, 370-376)
OkValues(evaluated) ==
    [key \in {x \in DOMAIN evaluated : evaluated[x].ok} |-> evaluated[key].val[1]]

EvalOutputs(outputs, ctx) ==
    OkValues([key \in DOMAIN outputs |-> evaluate_value(VString(outputs[key]), ctx)])

---------------------------------------------------------------------------
(* parser.rs: the document model *)

Step(id, uses, with, continue_on_error, pre_assert, post_assert) ==
    [name |-> <<>>, id |-> id, uses |-> uses, with |-> with,
     continue_on_error |-> continue_on_error,
     pre_assert |-> pre_assert, post_assert |-> post_assert]

Job(needs, uses, strategy, outputs, env, steps) ==
    [needs |-> needs, uses |-> uses, strategy |-> strategy, outputs |-> outputs,
     env |-> env, steps |-> steps]

Matrix(dimensions, include, exclude) ==
    [dimensions |-> dimensions, include |-> include, exclude |-> exclude]

Strategy(matrix) == [matrix |-> matrix, fail_fast |-> TRUE, max_parallel |-> <<>>]

\* on: { workflow_call: { outputs: { key: { value } } } }
WorkflowCall(outputs) == <<[workflow_call |-> <<[outputs |-> outputs]>>]>>

Workflow(name, on, env, jobs) == [name |-> name, on |-> on, env |-> env, jobs |-> jobs]

File(path, wf) == [path |-> path, wf |-> wf]

---------------------------------------------------------------------------
(* hooks.rs: HookDef and HookRegistry.  A hook function is told apart by the *)
(* number `f`; running a hook adds one entry to the trace that tells which   *)
(* function ran, as which kind, for which job and step, on which world and   *)
(* with which StepResult (<<>>: none).                                       *)

HookDef(kind, f) == [kind |-> kind, f |-> f]

\* HookRegistry::new
HookRegistryNew ==
    [before_all |-> <<>>, after_all |-> <<>>, before_scenario |-> <<>>,
     after_scenario |-> <<>>, before_step |-> <<>>, after_step |-> <<>>]

\* a register that puts the newest hook first
register_front(self, hook) ==
    CASE hook.kind = "BeforeAll" -> [self EXCEPT !.before_all = <<hook.f>> \o @]
      [] hook.kind = "AfterAll" -> [self EXCEPT !.after_all = <<hook.f>> \o @]
      [] hook.kind = "BeforeScenario" -> [self EXCEPT !.before_scenario = <<hook.f>> \o @]
      [] hook.kind = "AfterScenario" -> [self EXCEPT !.after_scenario = <<hook.f>> \o @]
      [] hook.kind = "BeforeStep" -> [self EXCEPT !.before_step = <<hook.f>> \o @]
      [] hook.kind = "AfterStep" -> [self EXCEPT !.after_step = <<hook.f>> \o @]

\* HookRegistry::register
register(self, hook) ==
    CASE hook.kind = "BeforeAll" -> [self EXCEPT !.before_all = Append(@, hook.f)]
      [] hook.kind = "AfterAll" -> [self EXCEPT !.after_all = Append(@, hook.f)]
      [] hook.kind = "BeforeScenario" -> [self EXCEPT !.before_scenario = Append(@, hook.f)]
      [] hook.kind = "AfterScenario" -> [self EXCEPT !.after_scenario = Append(@, hook.f)]
      [] hook.kind = "BeforeStep" -> [self EXCEPT !.before_step = Append(@, hook.f)]
      [] hook.kind = "AfterStep" -> [self EXCEPT !.after_step = Append(@, hook.f)]

\* `for hook in &fs { hook(..).await }`
HookRuns(fs, kind, name, step, world, result) ==
    [h \in 1..Len(fs) |->
        [ev |-> "hook", job |-> name, step |-> step, world |-> world, ok |-> TRUE,
         data |-> [kind |-> kind, f |-> fs[h], result |-> result]]]

run_before_all(self) == HookRuns(self.before_all, "BeforeAll", "", 0, 0, <<>>)

run_after_all(self) == HookRuns(self.after_all, "AfterAll", "", 0, 0, <<>>)

run_before_scenario(self, name, world) ==
    HookRuns(self.before_scenario, "BeforeScenario", name, 0, world, <<>>)

run_after_scenario(self, name, world) ==
    HookRuns(self.after_scenario, "AfterScenario", name, 0, world, <<>>)

run_before_step(self, name, step, world) ==
    HookRuns(self.before_step, "BeforeStep", name, step, world, <<>>)

run_after_step(self, name, step, world, result) ==
    HookRuns(self.after_step, "AfterStep", name, step, world, <<result>>)

---------------------------------------------------------------------------
(* runner.rs: RustActions::run, run_workflow, run_job, run_file_ref_job as   *)
(* a state machine.  pc is the position:                                     *)
(*   idle       before run()                                                 *)
(*   run_loop   run(): at `for (path, workflow) in workflows`                *)
(*   wf_loop    run_workflow(): at `for job_name in job_order`               *)
(*   row_loop   run_workflow(): at `for matrix_values in matrix_combos`      *)
(*   steps      run_job(): at `for step in &job.steps`                       *)
(*   ref_loop   run_file_ref_job(): at `for ref_job_name in ref_job_order`   *)
(*   ref_steps  run_file_ref_job(): at `for step in &ref_job.steps`          *)
(*   done       run() has returned or exited                                 *)

CurrentJobName == wfr.job_order[wfr.idx]
CurrentJob == wfr.workflow.jobs[CurrentJobName]

IsFileRefJob(j) == j.uses # <<>> /\ is_file_ref(j.uses[1])

\* run(): registry, workflows, BeforeAll hooks (runner.rs 131-176)
RunStart ==
    /\ pc = "idle"
    /\ run' = [workflows |-> IF single # <<>> THEN <<dir[single[1]]>>
                             ELSE SelectSeq(dir, LAMBDA f : ~is_reusable(f.wf)),
               registry |-> IF single # <<>> THEN <<>> ELSE <<RegistryBuild(dir)>>,
               all_results |-> <<>>, total_passed |-> 0, total_failed |-> 0,
               exit |-> <<>>]
    /\ events' = Append(events, Event("before_all", "", 0, 0, TRUE, EmptyMap))
                    \o run_before_all(hooks)
    /\ pc' = "run_loop"
    /\ UNCHANGED <<dir, single, wfr, ref, job, worlds>>
    /\ UNCHANGED <<hooks, topoVars, pureVars, libVars>>

\* run_workflow(): toposort_jobs succeeded (runner.rs 227-243)
WorkflowStart ==
    /\ pc = "run_loop"
    /\ run.workflows # <<>>
    /\ LET workflow == Head(run.workflows).wf IN
       \E keys \in Perms(DOMAIN workflow.jobs) :
          LET sorted == toposort_jobs(workflow.jobs, keys) IN
          /\ sorted.ok
          /\ wfr' = [workflow |-> workflow, job_order |-> sorted.order, idx |-> 1,
                     job_outputs |-> EmptyMap, job_results |-> <<>>,
                     rows |-> <<>>, row |-> 0]
    /\ run' = [run EXCEPT !.workflows = Tail(@)]
    /\ events' = Append(events, Event("workflow", Head(run.workflows).wf.name, 0, 0, TRUE, EmptyMap))
    /\ pc' = "wf_loop"
    /\ UNCHANGED <<dir, single, ref, job, worlds>>
    /\ UNCHANGED <<hooks, topoVars, pureVars, libVars>>

\* totals that hold the counts of the latest workflow only
RunRecordLatest(r, result) ==
    [r EXCEPT !.total_passed = jobs_passed(result),
              !.total_failed = jobs_failed(result),
              !.all_results = Append(@, result)]

\* run(): one more WorkflowResult (runner.rs 179-182)
RunRecord(r, result) ==
    [r EXCEPT !.total_passed = @ + jobs_passed(result),
              !.total_failed = @ + jobs_failed(result),
              !.all_results = Append(@, result)]

\* a toposort error that ends the whole run: the workflows left are dropped
WorkflowToposortErrorEndsRun ==
    /\ pc = "run_loop"
    /\ run.workflows # <<>>
    /\ LET workflow == Head(run.workflows).wf IN
       \E keys \in Perms(DOMAIN workflow.jobs) :
          LET sorted == toposort_jobs(workflow.jobs, keys) IN
          /\ ~sorted.ok
          /\ run' = RunRecord([run EXCEPT !.workflows = <<>>],
                              WorkflowResult(workflow.name, <<>>))
          /\ events' = Append(events, Event("toposort_error", workflow.name, 0, 0, FALSE, EmptyMap))
    /\ UNCHANGED <<dir, single, pc, wfr, ref, job, worlds>>
    /\ UNCHANGED <<hooks, topoVars, pureVars, libVars>>

\* run_workflow(): toposort_jobs failed, the workflow has no jobs (runner.rs 230-240)
WorkflowToposortError ==
    /\ pc = "run_loop"
    /\ run.workflows # <<>>
    /\ LET workflow == Head(run.workflows).wf IN
       \E keys \in Perms(DOMAIN workflow.jobs) :
          LET sorted == toposort_jobs(workflow.jobs, keys) IN
          /\ ~sorted.ok
          /\ run' = RunRecord([run EXCEPT !.workflows = Tail(@)],
                              WorkflowResult(workflow.name, <<>>))
          /\ events' = Append(events, Event("toposort_error", workflow.name, 0, 0, FALSE, EmptyMap))
    /\ UNCHANGED <<dir, single, pc, wfr, ref, job, worlds>>
    /\ UNCHANGED <<hooks, topoVars, pureVars, libVars>>

\* a run_workflow that adds a row's outputs to the ones the job has recorded
RecordJobMerged(w, result) ==
    LET before == IF result.name \in DOMAIN w.job_outputs
                  THEN w.job_outputs[result.name] ELSE EmptyMap
        merged == [key \in (DOMAIN before) \cup (DOMAIN result.outputs) |->
                      IF key \in DOMAIN result.outputs THEN result.outputs[key]
                      ELSE before[key]]
        w1 == [w EXCEPT !.job_outputs = Put(@, result.name, merged),
                        !.job_results = Append(@, result)] IN
    IF w.row < Len(w.rows) THEN [w1 EXCEPT !.row = @ + 1]
    ELSE [w1 EXCEPT !.rows = <<>>, !.row = 0, !.idx = @ + 1]

\* a fail-fast run_workflow: after a failed row of a strategy whose fail_fast
\* is set, the rows before the last one are passed over
RecordJobFailFast(w, result) ==
    LET w1 == [w EXCEPT !.job_outputs = Put(@, result.name, result.outputs),
                        !.job_results = Append(@, result)]
        strategy == w.workflow.jobs[result.name].strategy IN
    IF w.row < Len(w.rows)
    THEN [w1 EXCEPT !.row = IF ~passed(result) /\ strategy # <<>> /\ strategy[1].fail_fast
                             THEN Len(w.rows) ELSE @ + 1]
    ELSE [w1 EXCEPT !.rows = <<>>, !.row = 0, !.idx = @ + 1]

\* run_workflow(): job_outputs.insert, job_results.push, then the next matrix
\* row or, after the last one, the next job (runner.rs 256-257, 283-285)
RecordJob(w, result) ==
    LET w1 == [w EXCEPT !.job_outputs = Put(@, result.name, result.outputs),
                        !.job_results = Append(@, result)] IN
    IF w.row < Len(w.rows) THEN [w1 EXCEPT !.row = @ + 1]
    ELSE [w1 EXCEPT !.rows = <<>>, !.row = 0, !.idx = @ + 1]

AfterRecordPc(w) == IF w.row < Len(w.rows) THEN "row_loop" ELSE "wf_loop"

\* run_workflow(): an @file: job while no registry was built (runner.rs 248-270)
FileRefNoRegistry ==
    /\ pc = "wf_loop"
    /\ wfr.idx <= Len(wfr.job_order)
    /\ IsFileRefJob(CurrentJob)
    /\ run.registry = <<>>
    /\ wfr' = [wfr EXCEPT !.idx = @ + 1]
    /\ UNCHANGED <<dir, single, pc, run, ref, job, worlds, events>>
    /\ UNCHANGED <<hooks, topoVars, pureVars, libVars>>

\* run_file_ref_job() returns Err: the reference does not resolve or the
\* referenced workflow does not sort (runner.rs 303-316, 259-266)
FileRefError ==
    /\ pc = "wf_loop"
    /\ wfr.idx <= Len(wfr.job_order)
    /\ IsFileRefJob(CurrentJob)
    /\ run.registry # <<>>
    /\ LET ref_workflow == resolve_file_ref(run.registry[1], CurrentJob.uses[1]) IN
       \/ ~ref_workflow.ok
       \/ /\ ref_workflow.ok
          /\ \E keys \in Perms(DOMAIN ref_workflow.val[1].jobs) :
                ~toposort_jobs(ref_workflow.val[1].jobs, keys).ok
    /\ events' = Append(events, Event("job_error", CurrentJobName, 0, 0, FALSE, EmptyMap))
    /\ wfr' = [wfr EXCEPT !.idx = @ + 1]
    /\ UNCHANGED <<dir, single, pc, run, ref, job, worlds>>
    /\ UNCHANGED <<hooks, topoVars, pureVars, libVars>>

\* run_file_ref_job(): resolved and sorted (runner.rs 303-319)
FileRefStart ==
    /\ pc = "wf_loop"
    /\ wfr.idx <= Len(wfr.job_order)
    /\ IsFileRefJob(CurrentJob)
    /\ run.registry # <<>>
    /\ LET ref_workflow == resolve_file_ref(run.registry[1], CurrentJob.uses[1]) IN
       /\ ref_workflow.ok
       /\ \E keys \in Perms(DOMAIN ref_workflow.val[1].jobs) :
             LET sorted == toposort_jobs(ref_workflow.val[1].jobs, keys) IN
             /\ sorted.ok
             /\ ref' = [job_name |-> CurrentJobName, workflow |-> ref_workflow.val[1],
                        order |-> sorted.order, idx |-> 1, job_outputs |-> EmptyMap,
                        all_step_results |-> <<>>]
    /\ events' = Append(events, Event("file_ref", CurrentJobName, 0, 0, TRUE, EmptyMap))
    /\ pc' = "ref_loop"
    /\ UNCHANGED <<dir, single, run, wfr, job, worlds>>
    /\ UNCHANGED <<hooks, topoVars, pureVars, libVars>>

\* run_workflow(): the matrix rows of an ordinary job (runner.rs 273-279)
MatrixExpand ==
    /\ pc = "wf_loop"
    /\ wfr.idx <= Len(wfr.job_order)
    /\ ~IsFileRefJob(CurrentJob)
    /\ \E keys \in Perms(IF CurrentJob.strategy # <<>>
                         THEN DOMAIN CurrentJob.strategy[1].matrix.dimensions ELSE {}) :
          wfr' = [wfr EXCEPT !.rows = IF CurrentJob.strategy # <<>>
                                      THEN expand_matrix(CurrentJob.strategy[1], keys)
                                      ELSE <<EmptyMap>>,
                             !.row = 1]
    /\ pc' = "row_loop"
    /\ UNCHANGED <<dir, single, run, ref, job, worlds, events>>
    /\ UNCHANGED <<hooks, topoVars, pureVars, libVars>>

\* a context whose needs map holds the outputs of every job run so far
JobContextAllOutputs(j, workflow_env, parent_outputs, matrix_values) ==
    [NewContext EXCEPT
        !.env = [key \in (DOMAIN workflow_env) \cup (DOMAIN j.env) |->
                    IF key \in DOMAIN j.env THEN j.env[key] ELSE workflow_env[key]],
        !.matrix = matrix_values,
        !.needs = parent_outputs]

\* run_job(): the context of a job (runner.rs 437-446)
JobContext(j, workflow_env, parent_outputs, matrix_values) ==
    LET needs == as_vec(j.needs) IN
    [NewContext EXCEPT
        !.env = [key \in (DOMAIN workflow_env) \cup (DOMAIN j.env) |->
                    IF key \in DOMAIN j.env THEN j.env[key] ELSE workflow_env[key]],
        !.matrix = matrix_values,
        !.needs = [need \in {n \in Range(needs) : n \in DOMAIN parent_outputs} |->
                      parent_outputs[need]]]

\* run_job(): W::new() succeeded (runner.rs 412-449)
JobStart ==
    /\ pc = "row_loop"
    /\ worlds' = worlds + 1
    /\ job' = [name |-> CurrentJobName, def |-> CurrentJob, matrix |-> wfr.rows[wfr.row],
               world |-> NewWorld(worlds + 1),
               ctx |-> JobContext(CurrentJob, wfr.workflow.env, wfr.job_outputs, wfr.rows[wfr.row]),
               step_results |-> <<>>, should_skip |-> FALSE, i |-> 1]
    /\ events' = events \o <<Event("world_new", CurrentJobName, 0, worlds + 1, TRUE, EmptyMap),
                             Event("before_scenario", CurrentJobName, 0, worlds + 1, TRUE, EmptyMap)>>
                    \o run_before_scenario(hooks, CurrentJobName, worlds + 1)
    /\ pc' = "steps"
    /\ UNCHANGED <<dir, single, run, wfr, ref>>
    /\ UNCHANGED <<hooks, topoVars, pureVars, libVars>>

\* run_job(): W::new() failed (runner.rs 415-433)
JobWorldFailed ==
    /\ pc = "row_loop"
    /\ events' = Append(events, Event("world_failed", CurrentJobName, 0, 0, FALSE, EmptyMap))
    /\ wfr' = RecordJob(wfr, JobResult(CurrentJobName, wfr.rows[wfr.row], <<>>, EmptyMap))
    /\ pc' = AfterRecordPc(wfr)
    /\ UNCHANGED <<dir, single, run, ref, job, worlds>>
    /\ UNCHANGED <<hooks, topoVars, pureVars, libVars>>

\* a should_skip that any failure sets
SkipAfterAnyFailure(result, step) == is_failed(result)

\* `if result.is_failed() && !step.continue_on_error { should_skip = true }`
SkipAfter(result, step) == is_failed(result) /\ ~step.continue_on_error

\* run_job(): one turn of `for step in &job.steps` (runner.rs 451-470)
JobStep ==
    /\ pc = "steps"
    /\ job.i <= Len(job.def.steps)
    /\ LET step == job.def.steps[job.i] IN
       IF job.should_skip
       THEN /\ job' = [job EXCEPT !.step_results =
                          Append(@, [name |-> StepName(step), result |-> Skipped]),
                                  !.i = @ + 1]
            /\ UNCHANGED events
       ELSE \E out \in {run_step(job.name, job.i, job.world, step, job.ctx)} :
            /\ job' = [job EXCEPT
                          !.world = out.world,
                          !.ctx = out.ctx,
                          !.should_skip = @ \/ SkipAfter(out.result, step),
                          !.step_results =
                              Append(@, [name |-> StepName(step), result |-> out.result]),
                          !.i = @ + 1]
            /\ events' = events
                  \o <<Event("before_step", job.name, job.i, job.world.id, TRUE, EmptyMap)>>
                  \o run_before_step(hooks, job.name, job.i, job.world.id)
                  \o out.trace
                  \o <<Event("after_step", job.name, job.i, job.world.id,
                             is_passed(out.result), EmptyMap)>>
                  \o run_after_step(hooks, job.name, job.i, job.world.id, out.result)
    /\ UNCHANGED <<dir, single, pc, run, wfr, ref, worlds>>
    /\ UNCHANGED <<hooks, topoVars, pureVars, libVars>>

\* run_job(): AfterScenario hooks, the job's outputs, its JobResult
\* (runner.rs 472-523), recorded by run_workflow (283-284)
JobEnd ==
    /\ pc = "steps"
    /\ job.i > Len(job.def.steps)
    /\ events' = Append(events, Event("after_scenario", job.name, 0, job.world.id, TRUE, EmptyMap))
                    \o run_after_scenario(hooks, job.name, job.world.id)
    /\ wfr' = RecordJob(wfr, JobResult(job.name, job.matrix, job.step_results,
                                       EvalOutputs(job.def.outputs, job.ctx)))
    /\ pc' = AfterRecordPc(wfr)
    /\ job' = <<>>
    /\ UNCHANGED <<dir, single, run, ref, worlds>>
    /\ UNCHANGED <<hooks, topoVars, pureVars, libVars>>

\* run_workflow() returns, run() adds its totals (runner.rs 288-292, 179-182)
WorkflowEnd ==
    /\ pc = "wf_loop"
    /\ wfr.idx > Len(wfr.job_order)
    /\ run' = RunRecord(run, WorkflowResult(wfr.workflow.name, wfr.job_results))
    /\ wfr' = <<>>
    /\ pc' = "run_loop"
    /\ UNCHANGED <<dir, single, ref, job, worlds, events>>
    /\ UNCHANGED <<hooks, topoVars, pureVars, libVars>>

\* run(): AfterAll hooks, the summary, the exit status (runner.rs 185-218)
RunEnd ==
    /\ pc = "run_loop"
    /\ run.workflows = <<>>
    /\ run' = [run EXCEPT !.exit = <<IF run.total_failed > 0 THEN 1 ELSE 0>>]
    /\ events' = Append(events, Event("after_all", "", 0, 0, TRUE, EmptyMap))
                    \o run_after_all(hooks)
    /\ pc' = "done"
    /\ UNCHANGED <<dir, single, wfr, ref, job, worlds>>
    /\ UNCHANGED <<hooks, topoVars, pureVars, libVars>>

\* run_file_ref_job(): the context of a sub-workflow job (runner.rs 337-345)
RefContext(workflow_env, ref_job_outputs, parent_outputs) ==
    [NewContext EXCEPT
        !.env = workflow_env,
        !.needs = [dep \in (DOMAIN ref_job_outputs) \cup (DOMAIN parent_outputs) |->
                      IF dep \in DOMAIN parent_outputs THEN parent_outputs[dep]
                      ELSE ref_job_outputs[dep]]]

\* run_file_ref_job(): W::new() succeeded for the next sub-workflow job (runner.rs 321-348)
RefJobStart ==
    /\ pc = "ref_loop"
    /\ ref.idx <= Len(ref.order)
    /\ worlds' = worlds + 1
    /\ job' = [name |-> ref.order[ref.idx], def |-> ref.workflow.jobs[ref.order[ref.idx]],
               matrix |-> EmptyMap, world |-> NewWorld(worlds + 1),
               ctx |-> RefContext(ref.workflow.env, ref.job_outputs, wfr.job_outputs),
               step_results |-> <<>>, should_skip |-> FALSE, i |-> 1]
    /\ events' = Append(events, Event("world_new", ref.order[ref.idx], 0, worlds + 1, TRUE, EmptyMap))
    /\ pc' = "ref_steps"
    /\ UNCHANGED <<dir, single, run, wfr, ref>>
    /\ UNCHANGED <<hooks, topoVars, pureVars, libVars>>

\* run_file_ref_job(): W::new() failed: Ok(JobResult) with no steps and no
\* outputs (runner.rs 324-335), recorded by run_workflow (255-258)
RefWorldFailed ==
    /\ pc = "ref_loop"
    /\ ref.idx <= Len(ref.order)
    /\ events' = Append(events, Event("world_failed", ref.job_name, 0, 0, FALSE, EmptyMap))
    /\ wfr' = [wfr EXCEPT !.job_outputs = Put(@, ref.job_name, EmptyMap),
                          !.job_results = Append(@, JobResult(ref.job_name, EmptyMap, <<>>, EmptyMap)),
                          !.idx = @ + 1]
    /\ ref' = <<>>
    /\ pc' = "wf_loop"
    /\ UNCHANGED <<dir, single, run, job, worlds>>
    /\ UNCHANGED <<hooks, topoVars, pureVars, libVars>>

\* run_file_ref_job(): one turn of `for step in &ref_job.steps` (runner.rs 350-368)
RefJobStep ==
    /\ pc = "ref_steps"
    /\ job.i <= Len(job.def.steps)
    /\ \E step \in {job.def.steps[job.i]} :
       \E out \in {run_step(job.name, job.i, job.world, step, job.ctx)} :
       /\ job' = [job EXCEPT !.world = out.world, !.ctx = out.ctx, !.i = @ + 1,
                             !.step_results =
                                 Append(@, [name |-> StepName(step), result |-> out.result])]
       /\ ref' = [ref EXCEPT !.all_step_results =
                                 Append(@, [name |-> StepName(step), result |-> out.result])]
       /\ events' = events \o out.trace
    /\ UNCHANGED <<dir, single, pc, run, wfr, worlds>>
    /\ UNCHANGED <<hooks, topoVars, pureVars, libVars>>

\* run_file_ref_job(): the outputs of a sub-workflow job (runner.rs 370-377)
RefJobEnd ==
    /\ pc = "ref_steps"
    /\ job.i > Len(job.def.steps)
    /\ ref' = [ref EXCEPT !.job_outputs = Put(@, job.name, EvalOutputs(job.def.outputs, job.ctx)),
                          !.idx = @ + 1]
    /\ job' = <<>>
    /\ pc' = "ref_loop"
    /\ UNCHANGED <<dir, single, run, wfr, worlds, events>>
    /\ UNCHANGED <<hooks, topoVars, pureVars, libVars>>

\* workflow_call outputs evaluated with the job outputs under `needs`
CallOutputsOverNeeds(workflow, ref_job_outputs) ==
    IF workflow.on = <<>> \/ workflow.on[1].workflow_call = <<>> THEN EmptyMap
    ELSE LET defs == workflow.on[1].workflow_call[1].outputs
             eval_ctx == [NewContext EXCEPT !.needs = ref_job_outputs] IN
         EvalOutputs([key \in DOMAIN defs |-> defs[key].value], eval_ctx)

\* the workflow_call outputs over the sub-workflow's job outputs (runner.rs 379-393)
CallOutputs(workflow, ref_job_outputs) ==
    IF workflow.on = <<>> \/ workflow.on[1].workflow_call = <<>> THEN EmptyMap
    ELSE LET defs == workflow.on[1].workflow_call[1].outputs
             eval_ctx == [NewContext EXCEPT !.jobs = ref_job_outputs] IN
         EvalOutputs([key \in DOMAIN defs |-> defs[key].value], eval_ctx)

\* run_file_ref_job() returns Ok(JobResult) (runner.rs 379-401), recorded by
\* run_workflow (255-258)
RefEnd ==
    /\ pc = "ref_loop"
    /\ ref.idx > Len(ref.order)
    /\ LET result == JobResult(ref.job_name, EmptyMap, ref.all_step_results,
                               CallOutputs(ref.workflow, ref.job_outputs)) IN
       wfr' = [wfr EXCEPT !.job_outputs = Put(@, result.name, result.outputs),
                          !.job_results = Append(@, result),
                          !.idx = @ + 1]
    /\ ref' = <<>>
    /\ pc' = "wf_loop"
    /\ UNCHANGED <<dir, single, run, job, worlds, events>>
    /\ UNCHANGED <<hooks, topoVars, pureVars, libVars>>

---------------------------------------------------------------------------
(* SpecTopo: toposort_jobs applied to every jobs map over JobNames *)

TopoJob(needs) == [needs |-> needs]

TopoIdle == /\ tJobs = EmptyMap
            /\ tKeys = <<>>
            /\ tOut = <<>>

PureIdle == /\ arg = <<>>
            /\ ret = <<>>

ClockIdle == /\ nanos = 0
             /\ threads = <<>>
             /\ readings = <<>>

RngIdle == /\ rngs = <<>>
           /\ draws = <<>>

LibIdle == ClockIdle /\ RngIdle

RunIdle == /\ dir = <<>>
           /\ single = <<>>
           /\ hooks = HookRegistryNew
           /\ pc = "idle"
           /\ run = <<>>
           /\ wfr = <<>>
           /\ ref = <<>>
           /\ job = <<>>
           /\ worlds = 0
           /\ events = <<>>

InitTopo ==
    /\ \E keys \in SUBSET JobNames :
          /\ tJobs \in [keys -> {TopoJob(n) : n \in JobNeedsOver(JobNames, MaxNeeds)}]
          /\ tKeys \in Perms(keys)
    /\ tOut = <<>>
    /\ RunIdle
    /\ PureIdle
    /\ LibIdle

Toposort ==
    /\ tOut = <<>>
    /\ tOut' = <<toposort_jobs(tJobs, tKeys)>>
    /\ UNCHANGED <<tJobs, tKeys>>
    /\ UNCHANGED <<runVars, pureVars, libVars>>

NextTopo == Toposort

SpecTopo == InitTopo /\ [][NextTopo]_vars

---------------------------------------------------------------------------
(* The workflows the engine is run on *)

Map1(k, v) == Put(EmptyMap, k, v)

\* the string `${{ a.b.c }}`
Interp(path) == <<Ex(PathExpr(path))>>
\* the string `${{ LEFT OP RIGHT }}`
Assertion(l, op, r) == <<Ex(BoolExpr(l, op, r))>>

PlainJob(needs, outputs, steps) == Job(needs, None, None, outputs, EmptyMap, steps)

\* steps of the job drawn for run_job
StepShapes ==
    { Step(Some("s"), "echo", Map1("y", VStr("x1")), FALSE, <<>>, <<>>),
      Step(Some("t"), "count", EmptyMap, FALSE, <<>>, <<>>),
      Step(None, "echo", Map1("in", VString(Interp(<<"steps", "s", "outputs", "y">>))),
           FALSE, <<>>, <<>>),
      Step(Some("s"), "fail", EmptyMap, FALSE, <<>>, <<>>),
      Step(Some("t"), "fail", EmptyMap, TRUE, <<>>, <<>>),
      Step(None, "nope", EmptyMap, FALSE, <<>>, <<>>),
      Step(None, "count", EmptyMap, FALSE,
           <<Assertion(PathOp(<<"steps", "t", "outputs", "n">>), "==", LitOp(VNum(1)))>>, <<>>),
      Step(Some("s"), "echo", Map1("y", VStr("x2")), TRUE, <<>>,
           <<Assertion(PathOp(<<"outputs", "y">>), "==", LitOp(VStr("x1")))>>),
      Step(Some("t"), "echo", Map1("y", VNum(7)), FALSE, <<>>, <<>>) }

\* one job `a` with the given steps
JobWorkflow(steps) ==
    Workflow("job", None, EmptyMap,
             Map1("a", PlainJob(NeedsNone,
                                Map1("x", Interp(<<"steps", "s", "outputs", "y">>)), steps)))

\* the values a step hands to the next job
FlowValues ==
    { VStr("x1"), VNum(42), VBool(TRUE), VNull,
      VArr(<<VNum(1), VStr("x1")>>), VObj(Map1("k", VStr("x1"))) }

\* the job that receives needs.a.outputs.x as an argument and asserts on it
Consumer(needs, v) ==
    PlainJob(needs, EmptyMap,
             <<Step(None, "echo", Map1("in", VString(Interp(<<"needs", "a", "outputs", "x">>))),
                    FALSE,
                    <<Assertion(PathOp(<<"needs", "a", "outputs", "x">>), "==", LitOp(v))>>,
                    <<>>)>>)

\* job a: step s produces {y: v}, outputs.x is ${{ steps.s.outputs.y }}; job b needs a
FlowWorkflows ==
    { Workflow("flow", None, EmptyMap,
               [name \in {"a", "b"} |->
                   IF name = "a"
                   THEN PlainJob(NeedsNone, Map1("x", Interp(<<"steps", "s", "outputs", "y">>)),
                                 <<Step(Some("s"), "echo", Map1("y", v), FALSE, <<>>, <<>>)>>)
                   ELSE Consumer(needs, v)])
        : v \in FlowValues, needs \in {NeedsSingle("a"), NeedsMultiple(<<"a">>)} }

\* the jobs `needs` names, each with its needs and one counting step
OrderWorkflow(needs) ==
    Workflow("order", None, EmptyMap,
             [name \in DOMAIN needs |->
                 PlainJob(needs[name], EmptyMap,
                          <<Step(None, "count", EmptyMap, FALSE, <<>>, <<>>)>>)])

\* a job with a matrix, then a job that needs it
MatrixWorkflows ==
    { Workflow("matrix", None, Map1("v", Str("x1")),
               [name \in {"a", "b"} |->
                   IF name = "a"
                   THEN Job(NeedsNone, None,
                            Some(Strategy(Matrix(
                                [key \in {"k", "v"} |->
                                    IF key = "k" THEN <<VNum(1), VNum(2)>>
                                    ELSE <<VStr("x1"), VStr("x2")>>],
                                include, exclude))),
                            Map1("x", Interp(<<"steps", "s", "outputs", "y">>)), EmptyMap,
                            <<Step(Some("s"), "echo",
                                   Map1("y", VString(Interp(<<"matrix", "k">>))),
                                   FALSE, <<>>, <<>>)>>)
                   ELSE PlainJob(NeedsSingle("a"), EmptyMap,
                                 <<Step(None, "count", EmptyMap, FALSE, <<>>, <<>>)>>)])
        : include \in {<<>>, <<Map1("k", VNum(3))>>},
          exclude \in {<<>>, <<Map1("k", VNum(1))>>,
                       <<[key \in {"k", "v"} |-> IF key = "k" THEN VNum(2) ELSE VStr("x2")]>>} }

\* job a calls a workflow file, job b needs a
FileRefWorkflows ==
    { Workflow("caller", None, EmptyMap,
               [name \in {"a", "b"} |->
                   IF name = "a"
                   THEN Job(NeedsNone, Some(uses), None, EmptyMap, EmptyMap,
                            <<Step(None, "count", EmptyMap, FALSE, <<>>, <<>>)>>)
                   ELSE Consumer(NeedsSingle("a"), VStr("x1"))])
        : uses \in {"@file:sub.yaml", "@file:missing.yaml", "user/setup"} }

\* the workflows of sub.yaml: a reusable one whose second job fails its first
\* step (it declares the outputs x, which evaluates, and z, which does not),
\* a reusable one whose jobs form a cycle, and an ordinary one
SubWorkflows ==
    { Workflow("sub",
               WorkflowCall([key \in {"x", "z"} |->
                                [value |-> Interp(<<"jobs", IF key = "x" THEN "setup" ELSE "check",
                                                    "outputs", key>>)]]),
               EmptyMap,
               [name \in {"setup", "check"} |->
                   IF name = "setup"
                   THEN PlainJob(NeedsNone, Map1("x", Interp(<<"steps", "s", "outputs", "y">>)),
                                 <<Step(Some("s"), "echo", Map1("y", VStr("x1")), FALSE, <<>>, <<>>)>>)
                   ELSE PlainJob(NeedsSingle("setup"), EmptyMap,
                                 <<Step(None, "fail", EmptyMap, FALSE, <<>>, <<>>),
                                   Step(None, "count", EmptyMap, FALSE, <<>>, <<>>)>>)]),
      Workflow("sub", WorkflowCall(EmptyMap), EmptyMap,
               [name \in {"setup", "check"} |->
                   PlainJob(NeedsSingle(IF name = "setup" THEN "check" ELSE "setup"),
                            EmptyMap, <<>>)]),
      Workflow("sub", None, EmptyMap,
               Map1("setup", PlainJob(NeedsNone, EmptyMap,
                                      <<Step(None, "count", EmptyMap, FALSE, <<>>, <<>>)>>))) }

\* job a records the output x, job b needs a, job c needs b and perhaps a:
\* c reads needs.a.outputs.x (and goes on if that fails), then env.v and env.w
NeedsWorkflows ==
    { Workflow("needs", None,
               [key \in {"v", "w"} |-> Str("x1")],
               [name \in {"a", "b", "c"} |->
                   IF name = "a"
                   THEN PlainJob(NeedsNone, Map1("x", Interp(<<"steps", "s", "outputs", "y">>)),
                                 <<Step(Some("s"), "echo", Map1("y", VNum(42)), FALSE, <<>>, <<>>)>>)
                   ELSE IF name = "b"
                   THEN PlainJob(NeedsSingle("a"), EmptyMap, <<>>)
                   ELSE Job(needs, None, None, EmptyMap, env,
                            <<Step(None, "echo",
                                   Map1("in", VString(Interp(<<"needs", "a", "outputs", "x">>))),
                                   TRUE, <<>>, <<>>),
                              Step(None, "echo",
                                   [key \in {"v", "w"} |-> VString(Interp(<<"env", key>>))],
                                   FALSE, <<>>, <<>>)>>)])
        : needs \in {NeedsSingle("b"), NeedsMultiple(<<"b", "a">>)},
          env \in {EmptyMap, Map1("v", Str("x2")), Map1("u", Str("x2"))} }

\* job a has a matrix whose rows k = 1 and k = 3 fail the post-assertion of
\* step s (the included row has no v); job b needs a and fails its last step;
\* job c needs b
RowsWorkflows ==
    { Workflow("rows", None, EmptyMap,
               [name \in {"a", "b", "c"} |->
                   IF name = "a"
                   THEN Job(NeedsNone, None,
                            Some([Strategy(Matrix(
                                     [key \in {"k", "v"} |->
                                         IF key = "k" THEN <<VNum(1), VNum(2), VNum(3)>>
                                         ELSE <<VStr("x1")>>],
                                     include, <<>>))
                                  EXCEPT !.fail_fast = fail_fast]),
                            [key \in {"x", "z"} |->
                                Interp(IF key = "x" THEN <<"steps", "s", "outputs", "y">>
                                       ELSE <<"matrix", "v">>)],
                            EmptyMap,
                            <<Step(Some("s"), "echo",
                                   Map1("y", VString(Interp(<<"matrix", "k">>))), FALSE, <<>>,
                                   <<Assertion(PathOp(<<"outputs", "y">>), "==",
                                               LitOp(VStr("2")))>>)>>)
                   ELSE IF name = "b"
                   THEN PlainJob(NeedsSingle("a"),
                                 Map1("w", Interp(<<"steps", "s", "outputs", "in">>)),
                                 <<Step(Some("s"), "echo",
                                        Map1("in", VString(Interp(<<"needs", "a", "outputs", "x">>))),
                                        TRUE, <<>>, <<>>),
                                   Step(Some("t"), "echo",
                                        Map1("in", VString(Interp(<<"needs", "a", "outputs", "z">>))),
                                        TRUE, <<>>, <<>>),
                                   Step(None, "fail", EmptyMap, FALSE, <<>>, <<>>)>>)
                   ELSE PlainJob(NeedsSingle("b"), EmptyMap,
                                 <<Step(None, "echo",
                                        Map1("in", VString(Interp(<<"needs", "b", "outputs", "w">>))),
                                        FALSE, <<>>, <<>>)>>)])
        : fail_fast \in BOOLEAN, include \in {<<>>, <<Map1("k", VNum(4))>>} }

\* the calls of register that filled the engine's HookRegistry: none, as
\* RustActions::new() leaves it, or hooks of every kind, some kinds twice
Registrations ==
    { <<>>,
      <<HookDef("BeforeStep", 1), HookDef("AfterStep", 2), HookDef("BeforeScenario", 3),
        HookDef("AfterScenario", 4), HookDef("BeforeAll", 5), HookDef("AfterAll", 6),
        HookDef("AfterStep", 7), HookDef("BeforeStep", 8)>>,
      <<HookDef("AfterScenario", 4), HookDef("BeforeStep", 8), HookDef("AfterAll", 6),
        HookDef("BeforeStep", 1), HookDef("AfterStep", 2), HookDef("AfterScenario", 3)>> }

RECURSIVE Registered(_)
Registered(defs) ==
    IF defs = <<>> THEN HookRegistryNew
    ELSE register(Registered(SubSeq(defs, 1, Len(defs) - 1)), defs[Len(defs)])

Registries == {Registered(defs) : defs \in Registrations}

\* an ordinary workflow of one job, and the workflows that run beside it:
\* one whose jobs form a cycle, one whose job needs an absent job, one that
\* sorts
PlainSub ==
    Workflow("plain", None, EmptyMap,
             Map1("setup", PlainJob(NeedsNone, EmptyMap,
                                    <<Step(None, "count", EmptyMap, FALSE, <<>>, <<>>)>>)))

UnsortedWorkflows ==
    { OrderWorkflow([name \in {"a", "b"} |-> NeedsSingle(IF name = "a" THEN "b" ELSE "a")]),
      OrderWorkflow(Map1("a", NeedsSingle("b"))),
      OrderWorkflow(Map1("a", NeedsNone)) }

Directory(main, sub) == <<File("main.yaml", main), File("sub.yaml", sub)>>

\* run() on a directory, or on the single workflow file main.yaml or sub.yaml
Init ==
    /\ \/ /\ \E main \in FlowWorkflows \cup MatrixWorkflows :
                \E sub \in SubWorkflows : dir = Directory(main, sub)
          /\ single = None
       \/ /\ \E keys \in SUBSET JobNames :
                \E needs \in [keys -> JobNeedsOver(JobNames, MaxNeeds)] :
                   dir = <<File("main.yaml", OrderWorkflow(needs))>>
          /\ single = None
       \/ /\ \E main \in FileRefWorkflows : \E sub \in SubWorkflows : dir = Directory(main, sub)
          /\ single \in {None, Some(1), Some(2)}
       \/ /\ \E main \in NeedsWorkflows \cup RowsWorkflows : dir = <<File("main.yaml", main)>>
          /\ single = None
       \/ /\ \E main \in UnsortedWorkflows :
                dir \in {Directory(main, PlainSub),
                         <<File("sub.yaml", PlainSub), File("main.yaml", main)>>}
          /\ single = None
    /\ hooks \in IF Len(dir) = 2 /\ PlainSub \in {dir[1].wf, dir[2].wf}
                 THEN Registries ELSE {HookRegistryNew}
    /\ pc = "idle"
    /\ run = <<>>
    /\ wfr = <<>>
    /\ ref = <<>>
    /\ job = <<>>
    /\ worlds = 0
    /\ events = <<>>
    /\ TopoIdle
    /\ PureIdle
    /\ LibIdle

Next ==
    \/ RunStart
    \/ WorkflowStart
    \/ WorkflowToposortError
    \/ FileRefNoRegistry
    \/ FileRefError
    \/ FileRefStart
    \/ MatrixExpand
    \/ JobStart
    \/ JobWorldFailed
    \/ JobStep
    \/ JobEnd
    \/ WorkflowEnd
    \/ RunEnd
    \/ RefJobStart
    \/ RefWorldFailed
    \/ RefJobStep
    \/ RefJobEnd
    \/ RefEnd

Spec == Init /\ [][Next]_vars

\* run() on the single file of one job
InitJob ==
    /\ \E steps \in SeqsUpTo(StepShapes, MaxSteps) : dir = <<File("main.yaml", JobWorkflow(steps))>>
    /\ single = Some(1)
    /\ hooks \in Registries
    /\ pc = "idle"
    /\ run = <<>>
    /\ wfr = <<>>
    /\ ref = <<>>
    /\ job = <<>>
    /\ worlds = 0
    /\ events = <<>>
    /\ TopoIdle
    /\ PureIdle
    /\ LibIdle

NextJob ==
    \/ RunStart
    \/ WorkflowStart
    \/ MatrixExpand
    \/ JobStart
    \/ JobWorldFailed
    \/ JobStep
    \/ JobEnd
    \/ WorkflowEnd
    \/ RunEnd

SpecJob == InitJob /\ [][NextJob]_vars

---------------------------------------------------------------------------
(* The needs relation of a jobs map, stated without the traversal *)

NeedsOf(jobs, j) == IF j \in DOMAIN jobs THEN Range(as_vec(jobs[j].needs)) ELSE {}

\* the jobs reachable from j along one or more needs edges
RECURSIVE ReachFrom(_, _, _)
ReachFrom(jobs, frontier, seen) ==
    LET next == (UNION {NeedsOf(jobs, x) : x \in frontier}) \ seen
    IN IF next = {} THEN seen ELSE ReachFrom(jobs, next, seen \cup next)

Reach(jobs, j) == ReachFrom(jobs, {j}, {})

Acyclic(jobs) == \A j \in DOMAIN jobs : j \notin Reach(jobs, j)

AllDepsExist(jobs) == \A j \in DOMAIN jobs : NeedsOf(jobs, j) \subseteq DOMAIN jobs

PosIn(order, n) == CHOOSE i \in 1..Len(order) : order[i] = n

\* every needs target of every job stands in `order`, before the job
OrderValid(jobs, order) ==
    \A j \in DOMAIN jobs : \A n \in NeedsOf(jobs, j) :
        /\ j \in Range(order)
        /\ n \in Range(order)
        /\ PosIn(order, n) < PosIn(order, j)

\* `order` lists every key of jobs exactly once and nothing else
OrderComplete(jobs, order) ==
    /\ Len(order) = Cardinality(DOMAIN jobs)
    /\ Range(order) = DOMAIN jobs

---------------------------------------------------------------------------
(* Claims about toposort_jobs, checked under SpecTopo *)

\* C6: toposort_jobs returns an order listing every job key exactly once (and
\* no other name) if and only if the needs relation is acyclic and every needs
\* target is a job of the workflow; otherwise it returns an error and no order.
C6_ToposortCompleteness ==
    tOut # <<>> =>
        LET r == tOut[1] IN
        /\ r.ok <=> (Acyclic(tJobs) /\ AllDepsExist(tJobs))
        /\ r.ok => OrderComplete(tJobs, r.order)
        /\ ~r.ok => r.order = <<>> /\ r.err[1].kind \in {"CircularDependency", "JobDependencyNotFound"}

\* three jobs, two of them with needs, sorted successfully
C6_Witness ==
    /\ tOut # <<>>
    /\ tOut[1].ok
    /\ DOMAIN tJobs = JobNames
    /\ Cardinality({j \in JobNames : NeedsOf(tJobs, j) # {}}) = 2
    /\ Len(tOut[1].order) = 3

\* the chain of a CircularDependency error, as the names joined by " -> "
ChainOf(r) == r.err[1].path

\* C7 as claimed: with every needs target present and a cycle in the needs
\* relation, CircularDependency is returned and its chain starts and ends with
\* the same job, each name needing the one that follows it.
C7_ChainIsClosedCycle ==
    (tOut # <<>> /\ AllDepsExist(tJobs) /\ ~Acyclic(tJobs)) =>
        LET r == tOut[1]
            c == ChainOf(r) IN
        /\ ~r.ok
        /\ r.err[1].kind = "CircularDependency"
        /\ Len(c) >= 2
        /\ c[1] = c[Len(c)]
        /\ \A i \in 1..(Len(c) - 1) : c[i + 1] \in NeedsOf(tJobs, c[i])

\* C7 as amended: the chain is the traversal path from the job the traversal
\* started at, closed by the job found again: its last name occurs earlier in
\* the chain (not necessarily first), no other name is repeated, each name
\* needs the one that follows it, and the chain is the names joined by " -> ".
C7_ChainEndsInCycle ==
    (tOut # <<>> /\ AllDepsExist(tJobs) /\ ~Acyclic(tJobs)) =>
        LET r == tOut[1]
            c == ChainOf(r) IN
        /\ ~r.ok
        /\ r.err[1].kind = "CircularDependency"
        /\ Len(c) >= 2
        /\ \E p \in 1..(Len(c) - 1) : c[p] = c[Len(c)]
        /\ \A i, k \in 1..(Len(c) - 1) : c[i] = c[k] => i = k
        /\ \A i \in 1..(Len(c) - 1) : c[i + 1] \in NeedsOf(tJobs, c[i])
        /\ c[1] \in DOMAIN tJobs
        /\ r.err[1].chain = Join(c, " -> ")

\* a cycle reached through a job that is not on it: x -> a -> b -> a
C7_Witness ==
    /\ tOut # <<>>
    /\ AllDepsExist(tJobs)
    /\ ~Acyclic(tJobs)
    /\ tOut[1].err[1].kind = "CircularDependency"
    /\ Len(ChainOf(tOut[1])) = 4
    /\ ChainOf(tOut[1])[1] # ChainOf(tOut[1])[4]
    /\ ChainOf(tOut[1])[2] = ChainOf(tOut[1])[4]

\* C8: when a needs entry names a job that is no key of the jobs map,
\* toposort_jobs returns no order; when the needs relation is also acyclic the
\* error is JobDependencyNotFound, its dependency is listed in the needs of its
\* job and is absent from the workflow.
C8_MissingDependency ==
    (tOut # <<>> /\ ~AllDepsExist(tJobs)) =>
        LET r == tOut[1] IN
        /\ ~r.ok
        /\ r.order = <<>>
        /\ Acyclic(tJobs) =>
              /\ r.err[1].kind = "JobDependencyNotFound"
              /\ r.err[1].job \in DOMAIN tJobs
              /\ r.err[1].dependency \in NeedsOf(tJobs, r.err[1].job)
              /\ r.err[1].dependency \notin DOMAIN tJobs

\* an acyclic map of two jobs, the second one needing an absent job after a present one
C8_Witness ==
    /\ tOut # <<>>
    /\ Acyclic(tJobs)
    /\ Cardinality(DOMAIN tJobs) = 2
    /\ ~tOut[1].ok
    /\ tOut[1].err[1].kind = "JobDependencyNotFound"
    /\ Len(as_vec(tJobs[tOut[1].err[1].job].needs)) = 2
    /\ as_vec(tJobs[tOut[1].err[1].job].needs)[1] \in DOMAIN tJobs
    /\ as_vec(tJobs[tOut[1].err[1].job].needs)[2] = tOut[1].err[1].dependency

---------------------------------------------------------------------------
(* run_job on one job (SpecJob): what the trace and the results tell *)

\* positions in the trace of the events `ev` of step i of the job under way
TraceOf(ev, i) ==
    {k \in 1..Len(events) : events[k].ev = ev /\ events[k].job = job.name /\ events[k].step = i}

\* step i's callable was dispatched and returned outputs
Returned(i) == TraceOf("return", i) # {}

KindOf(i) == job.step_results[i].result.kind

\* some step before k failed without continue-on-error
FailedBefore(k) ==
    \E m \in 1..(k - 1) : KindOf(m) = "Failed" /\ ~job.def.steps[m].continue_on_error

\* C1: in run_job a step is recorded Skipped, and then neither its callable
\* nor its step hooks run, if and only if an earlier step of the job Failed
\* with continue_on_error = false; a step that is not skipped has its
\* BeforeStep and AfterStep hooks run.
C1_SkipIffEarlierFailure ==
    pc = "steps" =>
        \A k \in 1..Len(job.step_results) :
            /\ (KindOf(k) = "Skipped") <=> FailedBefore(k)
            /\ KindOf(k) = "Skipped" =>
                  /\ TraceOf("call", k) = {}
                  /\ TraceOf("before_step", k) = {}
                  /\ TraceOf("after_step", k) = {}
            /\ KindOf(k) # "Skipped" =>
                  /\ Cardinality(TraceOf("before_step", k)) = 1
                  /\ Cardinality(TraceOf("after_step", k)) = 1

\* a step that failed with continue-on-error, the next one executed and failed
\* without it, the third one skipped
C1_Witness ==
    /\ pc = "steps"
    /\ Len(job.step_results) = 3
    /\ KindOf(1) = "Failed" /\ job.def.steps[1].continue_on_error
    /\ KindOf(2) = "Failed" /\ ~job.def.steps[2].continue_on_error
    /\ TraceOf("before_step", 2) # {}
    /\ KindOf(3) = "Skipped"

\* every step result of the job result is Passed
AllStepsPassed(job_result) ==
    \A i \in 1..Len(job_result.steps) : job_result.steps[i].result.kind = "Passed"

\* the job results of all workflow results, in order
RECURSIVE AllJobs(_)
AllJobs(all_results) ==
    IF all_results = <<>> THEN <<>> ELSE Head(all_results).jobs \o AllJobs(Tail(all_results))

\* C2: a job result is passed if and only if every one of its step results is
\* Passed; a job with a Failed or a Skipped step is counted in jobs_failed of
\* its workflow and in the failed total of the run.
C2_PassedIffAllStepsPassed ==
    pc = "done" =>
        /\ \A w \in 1..Len(run.all_results) :
              /\ \A k \in 1..Len(run.all_results[w].jobs) :
                    passed(run.all_results[w].jobs[k]) <=> AllStepsPassed(run.all_results[w].jobs[k])
              /\ jobs_failed(run.all_results[w]) =
                    Cardinality({k \in 1..Len(run.all_results[w].jobs) :
                                    ~AllStepsPassed(run.all_results[w].jobs[k])})
        /\ run.total_failed =
              Cardinality({k \in 1..Len(AllJobs(run.all_results)) :
                              ~AllStepsPassed(AllJobs(run.all_results)[k])})
        /\ run.total_passed + run.total_failed = Len(AllJobs(run.all_results))

\* a job whose first step failed with continue-on-error and whose second step
\* passed is counted as failed
C2_Witness ==
    /\ pc = "done"
    /\ Len(run.all_results) = 1
    /\ Len(run.all_results[1].jobs) = 1
    /\ Len(run.all_results[1].jobs[1].steps) = 2
    /\ run.all_results[1].jobs[1].steps[1].result.kind = "Failed"
    /\ run.all_results[1].jobs[1].steps[2].result.kind = "Passed"
    /\ run.total_failed = 1

\* the steps are run in declaration order: one result per step so far, under
\* the step's name, and the calls of the trace in increasing step order
InDeclarationOrder ==
    /\ Len(job.step_results) = job.i - 1
    /\ job.i - 1 <= Len(job.def.steps)
    /\ \A k \in 1..Len(job.step_results) : job.step_results[k].name = StepName(job.def.steps[k])
    /\ \A k1, k2 \in 1..Len(events) :
          (k1 < k2 /\ events[k1].ev = "call" /\ events[k2].ev = "call")
              => events[k1].step < events[k2].step

ReturnedWithId(x) ==
    {i \in 1..(job.i - 1) : job.def.steps[i].id = <<x>> /\ Returned(i)}

Latest(S) == CHOOSE i \in S : \A k \in S : k <= i

---------------------------------------------------------------------------
(* run() on a workflow directory (Spec) *)

\* run_workflow is under way: wfr holds its locals
InWorkflow == pc \in {"wf_loop", "row_loop", "steps", "ref_loop", "ref_steps"}

\* positions in the trace of the events `ev` of the job `name`
JobTrace(ev, name) == {k \in 1..Len(events) : events[k].ev = ev /\ events[k].job = name}

\* C3 as claimed: once step s of job a has returned {y: v}, needs.a.outputs.x
\* is v: the outputs recorded for a hold x = v, the step of the dependent job
\* b is dispatched with in = v, and its assertion needs.a.outputs.x == v holds.
C3_OutputFlow ==
    (InWorkflow /\ wfr.workflow.name = "flow") =>
        \A ka \in JobTrace("return", "a") :
            /\ "a" \in DOMAIN wfr.job_outputs =>
                  /\ "x" \in DOMAIN wfr.job_outputs["a"]
                  /\ wfr.job_outputs["a"]["x"] = events[ka].data["y"]
            /\ \A r \in 1..Len(wfr.job_results) :
                  (wfr.job_results[r].name = "b" /\ wfr.job_results[r].steps # <<>>) =>
                      /\ wfr.job_results[r].steps[1].result.kind = "Passed"
                      /\ \E kb \in JobTrace("call", "b") :
                            events[kb].data["in"] = events[ka].data["y"]

\* C5: the order toposort_jobs returns puts every needs target before the job
\* that needs it, and run_workflow follows it: the job under way is the one at
\* the current position of the order, the results recorded so far are those of
\* the jobs before it, every job it needs stands before it, and no event of a
\* needed job follows an event of the job that needs it.
C5_NeedsRunFirst ==
    InWorkflow =>
        /\ OrderValid(wfr.workflow.jobs, wfr.job_order)
        /\ \A r \in 1..Len(wfr.job_results) :
              PosIn(wfr.job_order, wfr.job_results[r].name) <= wfr.idx
        /\ \A r1, r2 \in 1..Len(wfr.job_results) :
              r1 < r2 => PosIn(wfr.job_order, wfr.job_results[r1].name)
                            <= PosIn(wfr.job_order, wfr.job_results[r2].name)
        /\ pc \in {"row_loop", "steps"} =>
              /\ pc = "steps" => job.name = CurrentJobName
              /\ \A n \in NeedsOf(wfr.workflow.jobs, CurrentJobName) :
                    PosIn(wfr.job_order, n) < wfr.idx
        /\ \A k1, k2 \in 1..Len(events) :
              (k1 < k2 /\ events[k1].job \in DOMAIN wfr.workflow.jobs)
                  => events[k2].job \notin NeedsOf(wfr.workflow.jobs, events[k1].job)

\* the third job of three is under way; it needs the two that ran before it
C5_Witness ==
    /\ pc = "steps"
    /\ wfr.workflow.name = "order"
    /\ wfr.idx = 3
    /\ Len(wfr.job_results) = 2
    /\ Cardinality(NeedsOf(wfr.workflow.jobs, CurrentJobName)) = 2
    /\ JobTrace("after_scenario", wfr.job_order[1]) # {}
    /\ JobTrace("after_scenario", wfr.job_order[2]) # {}

\* C9 as claimed: a job whose world factory failed has a result with zero
\* steps that is not passed, no step of it is dispatched, it is counted among
\* the failed jobs and the run exits non-zero.
C9_WorldFailureFailsJob ==
    pc = "done" =>
        \A k \in 1..Len(events) :
            events[k].ev = "world_failed" =>
                /\ \E r \in 1..Len(AllJobs(run.all_results)) :
                      /\ AllJobs(run.all_results)[r].name = events[k].job
                      /\ AllJobs(run.all_results)[r].steps = <<>>
                      /\ ~passed(AllJobs(run.all_results)[r])
                /\ run.total_failed > 0
                /\ run.exit = <<1>>

\* job a of main.yaml calls a workflow file that cannot be resolved: the path
\* is no key of the registry, or run() built no registry
UnresolvedCall ==
    /\ dir[1].wf.name = "caller"
    /\ single \in {None, Some(1)}
    /\ IsFileRefJob(dir[1].wf.jobs["a"])
    /\ \/ single # None
       \/ ~resolve_file_ref(RegistryBuild(dir), dir[1].wf.jobs["a"].uses[1]).ok

\* C10 as claimed: when the `uses: @file:...` of a job cannot be resolved, a
\* job result that is not passed is recorded for the calling job, it is
\* counted among the failed jobs and the run exits non-zero.
C10_UnresolvedCallFailsJob ==
    (pc = "done" /\ UnresolvedCall) =>
        /\ \E r \in 1..Len(AllJobs(run.all_results)) :
              /\ AllJobs(run.all_results)[r].name = "a"
              /\ ~passed(AllJobs(run.all_results)[r])
        /\ run.total_failed > 0
        /\ run.exit = <<1>>

---------------------------------------------------------------------------
(* run(): the totals and the exit status *)

\* a job result with a step result that is not Passed
HasStepNotPassed(job_result) ==
    \E i \in 1..Len(job_result.steps) : job_result.steps[i].result.kind # "Passed"

FailedJobs(all_results) ==
    {r \in 1..Len(AllJobs(all_results)) : HasStepNotPassed(AllJobs(all_results)[r])}

---------------------------------------------------------------------------
(* run_file_ref_job(): a job that calls a reusable workflow *)

\* job a of main.yaml calls sub.yaml, which is in the registry, is reusable
\* and has jobs that can be ordered
CallsReusable ==
    /\ dir[1].wf.name = "caller"
    /\ single = None
    /\ IsFileRefJob(dir[1].wf.jobs["a"])
    /\ resolve_file_ref(RegistryBuild(dir), dir[1].wf.jobs["a"].uses[1]).ok
    /\ resolve_file_ref(RegistryBuild(dir), dir[1].wf.jobs["a"].uses[1]).val[1] = dir[2].wf
    /\ is_reusable(dir[2].wf)
    /\ Acyclic(dir[2].wf.jobs)
    /\ AllDepsExist(dir[2].wf.jobs)

\* the names of the jobs for which a world was created, in trace order
RECURSIVE WorldsCreatedFor(_)
WorldsCreatedFor(evs) ==
    IF evs = <<>> THEN <<>>
    ELSE IF Head(evs).ev = "world_new"
         THEN <<Head(evs).job>> \o WorldsCreatedFor(Tail(evs))
         ELSE WorldsCreatedFor(Tail(evs))

\* the number of steps declared by the jobs of `order`
RECURSIVE StepCount(_, _)
StepCount(jobs, order) ==
    IF order = <<>> THEN 0
    ELSE Len(jobs[Head(order)].steps) + StepCount(jobs, Tail(order))

\* the call of job a is under way or has returned a job result
CallDone == \E r \in 1..Len(wfr.job_results) : wfr.job_results[r].name = "a"

\* the state part of C12
CallState ==
    (CallsReusable /\ InWorkflow /\ JobTrace("world_failed", "a") = {}) =>
        /\ pc \in {"ref_loop", "ref_steps"} =>
              /\ ref.workflow = dir[2].wf
              /\ OrderValid(ref.workflow.jobs, ref.order)
              /\ OrderComplete(ref.workflow.jobs, ref.order)
              /\ WorldsCreatedFor(events) =
                    SubSeq(ref.order, 1, IF pc = "ref_steps" THEN ref.idx ELSE ref.idx - 1)
              /\ pc = "ref_loop" =>
                    /\ Len(ref.all_step_results) =
                          StepCount(ref.workflow.jobs, SubSeq(ref.order, 1, ref.idx - 1))
                    /\ DOMAIN ref.job_outputs = Range(SubSeq(ref.order, 1, ref.idx - 1))
        /\ CallDone =>
              /\ "a" \in DOMAIN wfr.job_outputs
              /\ \A r \in 1..Len(wfr.job_results) :
                    wfr.job_results[r].name = "a" =>
                        /\ wfr.job_results[r].outputs = wfr.job_outputs["a"]
                        /\ Len(wfr.job_results[r].steps) =
                              StepCount(dir[2].wf.jobs,
                                        CHOOSE order \in Perms(DOMAIN dir[2].wf.jobs) : TRUE)
              /\ \A k \in JobTrace("return", "setup") :
                    "y" \in DOMAIN events[k].data =>
                        /\ "x" \in DOMAIN wfr.job_outputs["a"]
                        /\ wfr.job_outputs["a"]["x"] = events[k].data["y"]
              /\ (pc = "steps" /\ job.name = "b") =>
                    /\ job.ctx.needs["a"] = wfr.job_outputs["a"]
                    /\ \A key \in DOMAIN wfr.job_outputs["a"] :
                          evaluate_expr(PathExpr(<<"needs", "a", "outputs", key>>), job.ctx)
                              = Ok(StringOf(wfr.job_outputs["a"][key]))
              /\ \A kb \in JobTrace("call", "b") :
                    "x" \in DOMAIN wfr.job_outputs["a"] =>
                        events[kb].data["in"] = wfr.job_outputs["a"]["x"]

\* the step of C12 in which run_file_ref_job returns: every declared
\* workflow_call output whose value evaluates over the context whose `jobs`
\* map is the sub-workflow's job outputs is recorded for the calling job
CallReturn ==
    (CallsReusable /\ pc = "ref_loop" /\ pc' = "wf_loop" /\ ref.idx > Len(ref.order)) =>
        /\ DOMAIN ref.job_outputs = DOMAIN ref.workflow.jobs
        /\ \A key \in DOMAIN ref.workflow.on[1].workflow_call[1].outputs :
              \E value \in {evaluate_value(
                               VString(ref.workflow.on[1].workflow_call[1].outputs[key].value),
                               [NewContext EXCEPT !.jobs = ref.job_outputs])} :
                 IF value.ok
                 THEN /\ key \in DOMAIN wfr'.job_outputs[ref.job_name]
                      /\ wfr'.job_outputs[ref.job_name][key] = value.val[1]
                 ELSE key \notin DOMAIN wfr'.job_outputs[ref.job_name]

---------------------------------------------------------------------------
(* run(): the workflows handed to run_workflow *)

\* C13 as claimed: in every configuration (a workflows directory or a single
\* workflow file) no workflow that run() is about to hand to run_workflow, and
\* no workflow that run_workflow is running, is reusable.
C13_ReusableNeverTopLevel ==
    /\ pc # "idle" => \A i \in 1..Len(run.workflows) : ~is_reusable(run.workflows[i].wf)
    /\ InWorkflow => ~is_reusable(wfr.workflow)

---------------------------------------------------------------------------
(* Two runs on the same workflow: the second run differs from the first in  *)
(* the iteration order of its HashMaps only.                                 *)

\* C14 as claimed: the job order of the run under way is the order every
\* other run computes for the same jobs map, and the matrix rows of the job
\* under way are the rows every other run expands from the same strategy.
C14_DeterministicOrder ==
    InWorkflow =>
        /\ \A keys \in Perms(DOMAIN wfr.workflow.jobs) :
              toposort_jobs(wfr.workflow.jobs, keys).order = wfr.job_order
        /\ (pc \in {"row_loop", "steps"} /\ CurrentJob.strategy # <<>>) =>
              \A keys \in Perms(DOMAIN CurrentJob.strategy[1].matrix.dimensions) :
                  expand_matrix(CurrentJob.strategy[1], keys) = wfr.rows

---------------------------------------------------------------------------
(* The world of a job execution *)

\* positions in the trace at which the world `id` was created
CreatedAt(id) == {c \in 1..Len(events) : events[c].ev = "world_new" /\ events[c].world = id}

\* the callables that mutated the world `id`: the returns of `count`
MutationsOf(id) ==
    {k \in 1..Len(events) :
        /\ events[k].ev = "return"
        /\ events[k].world = id
        /\ "n" \in DOMAIN events[k].data}

\* C15: every world is created once; every step and hook that is handed a
\* world gets the one created last, at the start of its own job execution
\* (job, matrix row or sub-workflow job), so no world serves two executions;
\* the world of the execution under way is as created when the first step
\* starts and has been mutated by the steps of this execution only.
C15_FreshWorldPerJob ==
    /\ \A k \in 1..Len(events) :
          events[k].world # 0 =>
              /\ Cardinality(CreatedAt(events[k].world)) = 1
              /\ \A c \in CreatedAt(events[k].world) :
                    /\ c <= k
                    /\ events[c].job = events[k].job
                    /\ \A m \in (c + 1)..k : events[m].ev # "world_new"
    /\ pc \in {"steps", "ref_steps"} =>
          /\ job.world.id = worlds
          /\ CreatedAt(job.world.id) # {}
          /\ job.i = 1 => job.world = NewWorld(worlds)
          /\ job.world.n = Cardinality(MutationsOf(job.world.id))

\* the third job execution of a run is under way on its own world, after
\* the steps of the two before it each mutated theirs
C15_Witness ==
    /\ pc \in {"steps", "ref_steps"}
    /\ worlds = 3
    /\ job.world.id = 3
    /\ job.world.n = 1
    /\ MutationsOf(1) # {}
    /\ MutationsOf(2) # {}
    /\ MutationsOf(3) # {}

---------------------------------------------------------------------------
(* SpecMatrix: expand_matrix_inner on every matrix drawn below, then         *)
(* format_matrix_suffix on every combination it returned                     *)

\* longest list of values of a dimension
MaxDimLen == 2
\* most include and exclude entries of a matrix, taken together
MaxEntries == 2

\* the keys of the dimensions; k is a prefix of k1
DimKeys == {"k", "k1"}

\* the values of a dimension are the first values of this list
DimValues(n) == [i \in 1..n |-> IF i = 2 THEN VStr("x2") ELSE VNum(i)]

\* dimensions: every map from some of the keys to a list of values
DimensionMaps ==
    UNION {[keys -> {DimValues(n) : n \in 0..MaxDimLen}] : keys \in SUBSET DimKeys}

\* include and exclude entries: over a dimension key and a key `v` that is
\* no dimension, with values that are and are not in the dimensions
MatrixEntries ==
    UNION {[keys -> {VNum(1), VStr("x2")}] : keys \in SUBSET {"k"}}
        \cup {Map1("v", VNum(1)),
              [key \in {"k", "v"} |-> VNum(1)],
              [key \in {"k", "v"} |-> IF key = "k" THEN VStr("x2") ELSE VNum(1)]}

\* every order in which a HashMap over `keys` iterates
IterationOrders(keys) == Perms(keys)

InitMatrix ==
    /\ \E dimensions \in DimensionMaps :
       \E n \in 0..MaxEntries :
       \E include \in SeqsUpTo(MatrixEntries, n) :
       \E exclude \in SeqsUpTo(MatrixEntries, n - Len(include)) :
       \E keys \in IterationOrders(DOMAIN dimensions) :
          arg = [matrix |-> Matrix(dimensions, include, exclude), keys |-> keys]
    /\ ret = <<>>
    /\ TopoIdle
    /\ RunIdle
    /\ LibIdle

\* let combos = expand_matrix_inner(&matrix)
ExpandMatrix ==
    /\ ret = <<>>
    /\ ret' = <<expand_matrix_inner(arg.matrix, arg.keys)>>
    /\ UNCHANGED <<arg, topoVars, runVars, libVars>>

\* format_matrix_suffix(combo) for every combo of combos
FormatSuffixes ==
    /\ Len(ret) = 1
    /\ \E order \in IterationOrders(DimKeys \cup {"v"}) :
          ret' = Append(ret,
                   [i \in 1..Len(ret[1]) |->
                       format_matrix_suffix(ret[1][i],
                           SelectSeq(order, LAMBDA key : key \in DOMAIN ret[1][i]))])
    /\ UNCHANGED <<arg, topoVars, runVars, libVars>>

NextMatrix == ExpandMatrix \/ FormatSuffixes

SpecMatrix == InitMatrix /\ [][NextMatrix]_vars

---------------------------------------------------------------------------
(* The expansion of a matrix, stated without the loops of matrix.rs *)

\* an exclude entry matches a combination: every key of the entry is a key
\* of the combination, with an equal value
Matches(combo, entry) ==
    \A key \in DOMAIN entry : key \in DOMAIN combo /\ combo[key] = entry[key]

Excluded(combo, exclude) == \E i \in 1..Len(exclude) : Matches(combo, exclude[i])

\* the cartesian product of the dimensions as the set of all choices of one
\* value per dimension; of no dimensions it is the one empty choice
ProductOfDimensions(dimensions) ==
    {combo \in [DOMAIN dimensions -> UNION {Range(dimensions[key]) : key \in DOMAIN dimensions}] :
        \A key \in DOMAIN dimensions : combo[key] \in Range(dimensions[key])}

\* the combinations the expander enumerates: none when there is no dimension
CombinationsOf(dimensions) ==
    IF DOMAIN dimensions = {} THEN {} ELSE ProductOfDimensions(dimensions)

\* the product of the lengths of the dimension lists
RECURSIVE ProductOfLengths(_, _)
ProductOfLengths(dimensions, keys) ==
    IF keys = <<>> THEN 1
    ELSE Len(dimensions[Head(keys)]) * ProductOfLengths(dimensions, Tail(keys))

\* the size as claimed: product of the lengths, minus the cartesian
\* combinations that match an exclude entry, plus the include entries
ClaimedSize(matrix, keys) ==
    ProductOfLengths(matrix.dimensions, keys)
        - Cardinality({combo \in ProductOfDimensions(matrix.dimensions) :
                          Excluded(combo, matrix.exclude)})
        + Len(matrix.include)

\* the same with no combination counted when there is no dimension
SizeOverDimensions(matrix, keys) ==
    (IF DOMAIN matrix.dimensions = {} THEN 0 ELSE ProductOfLengths(matrix.dimensions, keys))
        - Cardinality({combo \in CombinationsOf(matrix.dimensions) :
                          Excluded(combo, matrix.exclude)})
        + Len(matrix.include)

\* C16 as claimed: the number of combinations is the product of the lengths
\* of the dimension lists minus the number of cartesian combinations that
\* match an exclude entry plus the number of include entries, and the result
\* is the single empty combination when that number is 0.
C16_MatrixSize ==
    ret # <<>> =>
        IF ClaimedSize(arg.matrix, arg.keys) = 0
        THEN ret[1] = <<EmptyMap>>
        ELSE Len(ret[1]) = ClaimedSize(arg.matrix, arg.keys)

\* C16 amended: the same, where a matrix without dimensions has no cartesian
\* combination (its product counts 0, not 1).
C16_MatrixSizeOverDimensions ==
    ret # <<>> =>
        IF SizeOverDimensions(arg.matrix, arg.keys) = 0
        THEN ret[1] = <<EmptyMap>>
        ELSE Len(ret[1]) = SizeOverDimensions(arg.matrix, arg.keys)

\* two dimensions of two values, an exclude entry that matches two of the
\* four combinations, one include entry: three combinations
C16_Witness ==
    /\ ret # <<>>
    /\ DOMAIN arg.matrix.dimensions = DimKeys
    /\ \A key \in DimKeys : Len(arg.matrix.dimensions[key]) = 2
    /\ Len(arg.matrix.exclude) = 1
    /\ Len(arg.matrix.include) = 1
    /\ Len(ret[1]) = 3

\* the combinations of the dimensions that match no exclude entry
Kept(matrix) ==
    {combo \in CombinationsOf(matrix.dimensions) : ~Excluded(combo, matrix.exclude)}

C18_NeverEmpty ==
    ret # <<>> =>
        /\ Len(ret[1]) >= 1
        /\ (DOMAIN arg.matrix.dimensions = {} /\ arg.matrix.include = <<>>)
              => ret[1] = <<EmptyMap>>
        /\ (arg.matrix.include = <<>>
              /\ \/ \A combo \in ProductOfDimensions(arg.matrix.dimensions) :
                       Excluded(combo, arg.matrix.exclude)
                 \/ \E key \in DOMAIN arg.matrix.dimensions :
                       arg.matrix.dimensions[key] = <<>>)
              => ret[1] = <<EmptyMap>>

\* both values of the one dimension are excluded and nothing is included
C18_Witness ==
    /\ ret # <<>>
    /\ DOMAIN arg.matrix.dimensions = {"k"}
    /\ Len(arg.matrix.dimensions["k"]) = 2
    /\ Len(arg.matrix.exclude) = 2
    /\ arg.matrix.include = <<>>
    /\ ret[1] = <<EmptyMap>>

\* the keys of a combination in ascending alphabetical order
AscendingKeys(combo) ==
    CHOOSE order \in Perms(DOMAIN combo) :
        \A i, j \in 1..Len(order) : i < j => str_lt(order[i], order[j])

\* C19 as claimed: the suffix of a combination that is not empty lists one
\* k=v part per key in ascending alphabetical order of the keys, and the
\* suffix of the empty combination is the empty string.
C19_SuffixKeysAscending ==
    Len(ret) = 2 =>
        \A i \in 1..Len(ret[1]) :
            ret[2][i] = IF DOMAIN ret[1][i] = {} THEN ""
                        ELSE " [" \o Join(SuffixParts(ret[1][i], AscendingKeys(ret[1][i])), ", ")
                                  \o "]"

---------------------------------------------------------------------------
(* SpecFileRef: is_file_ref and parse_file_ref on every `uses` string that   *)
(* is a concatenation of the pieces below                                    *)

\* most pieces of a drawn `uses` string
MaxPieces == 3

UsesPieces == {"@file:", "@file", "file:", "@", "a", "/", ".yaml"}

RECURSIVE Concat(_)
Concat(pieces) == IF pieces = <<>> THEN "" ELSE Head(pieces) \o Concat(Tail(pieces))

InitFileRef ==
    /\ \E pieces \in SeqsUpTo(UsesPieces, MaxPieces) : arg = Concat(pieces)
    /\ ret = EmptyMap
    /\ TopoIdle
    /\ RunIdle
    /\ LibIdle

\* is_file_ref(uses)
IsFileRef ==
    /\ "is_file_ref" \notin DOMAIN ret
    /\ ret' = Put(ret, "is_file_ref", is_file_ref(arg))
    /\ UNCHANGED <<arg, topoVars, runVars, libVars>>

\* parse_file_ref(uses)
ParseFileRef ==
    /\ "parse_file_ref" \notin DOMAIN ret
    /\ ret' = Put(ret, "parse_file_ref", parse_file_ref(arg))
    /\ UNCHANGED <<arg, topoVars, runVars, libVars>>

NextFileRef == IsFileRef \/ ParseFileRef

SpecFileRef == InitFileRef /\ [][NextFileRef]_vars

\* the strings s with uses = "@file:" + s
FileRefSuffixes(uses) ==
    {suffix \in {SubSeq(uses, i, Len(uses)) : i \in 1..(Len(uses) + 1)} :
        uses = "@file:" \o suffix}

\* C20 as claimed: parse_file_ref returns Ok(s) when the input is "@file:"
\* followed by a non-empty s and rejects every other input with
\* InvalidFileRef; is_file_ref is true exactly for the inputs that start with
\* "@file:".
C20_FileRefRoundTrip ==
    /\ "parse_file_ref" \in DOMAIN ret =>
          IF \E suffix \in FileRefSuffixes(arg) : suffix # ""
          THEN \A suffix \in FileRefSuffixes(arg) : ret["parse_file_ref"] = Ok(suffix)
          ELSE /\ ~ret["parse_file_ref"].ok
               /\ ret["parse_file_ref"].err[1].kind = "InvalidFileRef"
    /\ "is_file_ref" \in DOMAIN ret =>
          (ret["is_file_ref"] <=> FileRefSuffixes(arg) # {})

---------------------------------------------------------------------------
(* SpecExpr: evaluate_value and the `contains` comparison (expr.rs) as pure  *)
(* functions of a JSON value and of an ExprContext                           *)

\* deepest nesting of arrays and objects in a drawn value
MaxDepth == 2
\* most pieces of the characters of a drawn string
MaxTextPieces == 2

TextPieces == {"${{", "}}", " ", "env.x", "}"}

Texts == {Concat(pieces) : pieces \in SeqsUpTo(TextPieces, MaxTextPieces)}

Leaves == {VNull, VBool(TRUE), VNum(1)} \cup {StringValue(text) : text \in Texts}

\* the arrays and objects that hold v
Wraps(v) ==
    { VArr(<<v>>), VArr(<<VNum(1), v>>),
      VObj(Map1("k", v)), VObj([key \in {"k", "n"} |-> IF key = "k" THEN v ELSE VNum(1)]) }

RECURSIVE Nested(_)
Nested(depth) ==
    IF depth = 0 THEN Leaves
    ELSE Leaves \cup UNION {Wraps(v) : v \in Nested(depth - 1)}

\* the empty context, and one whose env defines x
Contexts == {NewContext, [NewContext EXCEPT !.env = Map1("x", Str("v"))]}

InitExpr ==
    /\ \E value \in Nested(MaxDepth) : \E ctx \in Contexts : arg = [value |-> value, ctx |-> ctx]
    /\ ret = EmptyMap
    /\ TopoIdle
    /\ RunIdle
    /\ LibIdle

\* the items of an array, the values of the fields of an object
Children(v) == Range(v.items) \cup {v.fields[key] : key \in DOMAIN v.fields}

\* evaluate_value(value, ctx)
EvaluateValue ==
    /\ "evaluate_value" \notin DOMAIN ret
    /\ ret' = Put(ret, "evaluate_value", evaluate_value(arg.value, arg.ctx))
    /\ UNCHANGED <<arg, topoVars, runVars, libVars>>

\* compare_values(value, needle, "contains") where the needle is the value
\* itself or one of the values it holds
Contains ==
    /\ "contains" \notin DOMAIN ret
    /\ \E needle \in {arg.value} \cup Children(arg.value) :
          ret' = Put(ret, "contains",
                     [needle |-> needle,
                      result |-> compare_values(arg.value, needle, "contains")])
    /\ UNCHANGED <<arg, topoVars, runVars, libVars>>

NextExpr == EvaluateValue \/ Contains

SpecExpr == InitExpr /\ [][NextExpr]_vars

\* C21: `contains` is reflexive: for every string, array or object X, however
\* its arrays and objects nest, X contains X is true.
C21_ContainsReflexive ==
    ("contains" \in DOMAIN ret
        /\ ret["contains"].needle = arg.value
        /\ arg.value.k \in {"str", "arr", "obj"})
      => ret["contains"].result

\* an array of a number and of an object that holds a string contains itself
C21_Witness ==
    /\ "contains" \in DOMAIN ret
    /\ ret["contains"].needle = arg.value
    /\ arg.value.k = "arr"
    /\ Len(arg.value.items) = 2
    /\ arg.value.items[2].k = "obj"
    /\ arg.value.items[2].fields["k"].k = "str"
    /\ ret["contains"].result

\* the characters of the strings a value holds
RECURSIVE StringsOf(_)
StringsOf(v) ==
    IF v.k = "str" THEN {Text(v.s)}
    ELSE UNION {StringsOf(child) : child \in Children(v)}

\* the text holds a `${{ ... }}`: `${{`, then at least one character, then `}}`
HasForm(text) ==
    \E i, j \in 1..Len(text) : At(text, i, "${{") /\ At(text, j, "}}") /\ j >= i + 4

\* C22: evaluate_value is the identity on a value none of whose strings holds
\* a `${{ ... }}`: strings and other leaves come back unchanged, objects and
\* arrays keep their keys, length and order, on every context, without error.
C22_EvaluateValueIdentity ==
    ("evaluate_value" \in DOMAIN ret /\ \A text \in StringsOf(arg.value) : ~HasForm(text))
      => ret["evaluate_value"] = Ok(arg.value)

\* an object of a number and of an array that holds a number and a string
\* that opens a `${{` and never closes it, on a context that defines env.x
C22_Witness ==
    /\ "evaluate_value" \in DOMAIN ret
    /\ arg.ctx.env # EmptyMap
    /\ DOMAIN arg.value.fields = {"k", "n"}
    /\ arg.value.fields["k"].k = "arr"
    /\ StringsOf(arg.value) = {"${{env.x"}
    /\ ret["evaluate_value"] = Ok(arg.value)

---------------------------------------------------------------------------
(* validate.rs: validate_registry.  A ValidationReport is the list of its    *)
(* errors and the list of its warnings; every error is a record of the same  *)
(* fields (`what` is the dependency, the file_ref, the uses, the step_id or  *)
(* the output_name of its kind, `chain` the chain of a cycle).               *)

ValidationError(kind, workflow, job_name, what, chain) ==
    [kind |-> kind, workflow |-> workflow, job |-> job_name, what |-> what, chain |-> chain]

ValidationWarning(kind, workflow, job_name) ==
    [kind |-> kind, workflow |-> workflow, job |-> job_name]

\* ValidationReport::new, with the local referenced_reusables of validate_registry
NewReport == [errors |-> <<>>, warnings |-> <<>>, referenced_reusables |-> {}]

add_errors(report, errors) == [report EXCEPT !.errors = @ \o errors]
add_warning(report, warning) == [report EXCEPT !.warnings = Append(@, warning)]

\* validate_job_dependencies: one error per entry of needs that names no job
validate_job_dependencies(workflow_path, job_name, needs, all_jobs) ==
    LET deps == as_vec(needs) IN
    SelectSeq([i \in 1..Len(deps) |->
                  ValidationError("JobDependencyNotFound", workflow_path, job_name, deps[i], <<>>)],
              LAMBDA error : error.what \notin all_jobs)

\* validate_job_uses: the errors, and the path added to referenced_reusables.
\* The branch for a reusable workflow without outputs has an empty body.
validate_job_uses(workflow_path, job_name, uses, registry) ==
    IF ~is_file_ref(uses) THEN [errors |-> <<>>, referenced |-> {}]
    ELSE LET file_path == parse_file_ref(uses) IN
         IF ~file_path.ok
         THEN [errors |-> <<ValidationError("InvalidFileReference", workflow_path, job_name,
                                            uses, <<>>)>>,
               referenced |-> {}]
         ELSE IF file_path.val[1] \notin DOMAIN registry
         THEN [errors |-> <<ValidationError("FileReferenceNotFound", workflow_path, job_name,
                                            file_path.val[1], <<>>)>>,
               referenced |-> {}]
         ELSE [errors |-> <<>>, referenced |-> {file_path.val[1]}]

\* validate_step_ids reporting an id only when the step just before carries it
RECURSIVE validate_step_ids_adjacent(_, _, _, _)
validate_step_ids_adjacent(workflow_path, job_name, steps, seen_ids) ==
    IF steps = <<>> THEN <<>>
    ELSE LET id == Head(steps).id IN
         IF id = <<>>
         THEN validate_step_ids_adjacent(workflow_path, job_name, Tail(steps), {})
         ELSE IF id[1] \in seen_ids
         THEN <<ValidationError("DuplicateStepId", workflow_path, job_name, id[1], <<>>)>>
                  \o validate_step_ids_adjacent(workflow_path, job_name, Tail(steps), {id[1]})
         ELSE validate_step_ids_adjacent(workflow_path, job_name, Tail(steps), {id[1]})

\* validate_step_ids: the loop over the steps from the given seen_ids on
RECURSIVE validate_step_ids_from(_, _, _, _)
validate_step_ids_from(workflow_path, job_name, steps, seen_ids) ==
    IF steps = <<>> THEN <<>>
    ELSE LET id == Head(steps).id IN
         IF id = <<>>
         THEN validate_step_ids_from(workflow_path, job_name, Tail(steps), seen_ids)
         ELSE IF id[1] \in seen_ids
         THEN <<ValidationError("DuplicateStepId", workflow_path, job_name, id[1], <<>>)>>
                  \o validate_step_ids_from(workflow_path, job_name, Tail(steps), seen_ids)
         ELSE validate_step_ids_from(workflow_path, job_name, Tail(steps),
                                     seen_ids \cup {id[1]})

validate_step_ids(workflow_path, job_name, steps) ==
    validate_step_ids_from(workflow_path, job_name, steps, {})

\* str::trim
RECURSIVE trim(_)
trim(text) ==
    IF text = "" THEN ""
    ELSE IF SubSeq(text, 1, 1) = " " THEN trim(SubSeq(text, 2, Len(text)))
    ELSE IF SubSeq(text, Len(text), Len(text)) = " " THEN trim(SubSeq(text, 1, Len(text) - 1))
    ELSE text

ends_with(text, suffix) ==
    Len(text) >= Len(suffix) /\ SubSeq(text, Len(text) - Len(suffix) + 1, Len(text)) = suffix

\* str::find for a one-character pattern: Some(index from 0)
find(text, c) ==
    IF \A i \in 1..Len(text) : SubSeq(text, i, i) # c THEN None
    ELSE Some(Min({i \in 1..Len(text) : SubSeq(text, i, i) = c}) - 1)

\* the step id of `${{ steps.ID.… }}`
StepReferenceIn(inner) ==
    IF ~starts_with(inner, "steps.") THEN None
    ELSE LET rest == SubSeq(inner, 7, Len(inner)) IN
         IF find(rest, ".") = None THEN None
         ELSE Some(SubSeq(rest, 1, find(rest, ".")[1]))

\* extract_step_reference
extract_step_reference(expression) ==
    LET trimmed == trim(expression) IN
    IF ~starts_with(trimmed, "${{") \/ ~ends_with(trimmed, "}}") THEN None
    ELSE StepReferenceIn(trim(SubSeq(trimmed, 4, Len(trimmed) - 2)))

\* validate_job_outputs, the outputs visited in the order `names`
validate_job_outputs(workflow_path, job_name, outputs, names, steps) ==
    LET step_ids == {steps[i].id[1] : i \in {k \in 1..Len(steps) : steps[k].id # <<>>}} IN
    SelectSeq([i \in 1..Len(names) |->
                  ValidationError("InvalidOutputExpression", workflow_path, job_name,
                                  names[i], <<>>)],
              LAMBDA error :
                  LET step_ref == extract_step_reference(Text(outputs[error.what])) IN
                  step_ref # None /\ step_ref[1] \notin step_ids)

\* validate_circular_dependencies: in_degree counts every entry of needs,
\* dependents lists a job under each of its needs that is a job
InDegree(jobs) == [name \in DOMAIN jobs |-> Len(as_vec(jobs[name].needs))]

\* dependents[dep]: one entry per (job, entry of its needs equal to dep),
\* the jobs in the order `names`
RECURSIVE Dependents(_, _, _)
Dependents(jobs, names, dep) ==
    IF names = <<>> THEN <<>>
    ELSE SelectSeq([i \in 1..Len(as_vec(jobs[Head(names)].needs)) |->
                       IF as_vec(jobs[Head(names)].needs)[i] = dep THEN Head(names) ELSE ""],
                   LAMBDA name : name # "")
             \o Dependents(jobs, Tail(names), dep)

\* for dependent in deps: *deg -= 1, and the dependent is queued at 0
RECURSIVE Release(_, _)
Release(deps, st) ==
    IF deps = <<>> THEN st
    ELSE LET deg == st.in_degree[Head(deps)] - 1
             next == [st EXCEPT !.in_degree[Head(deps)] = deg] IN
         Release(Tail(deps),
                 IF deg = 0 THEN [next EXCEPT !.queue = Append(@, Head(deps))] ELSE next)

\* while let Some(job) = queue.pop()
RECURSIVE Drain(_, _, _)
Drain(jobs, names, st) ==
    IF st.queue = <<>> THEN st
    ELSE LET job_name == st.queue[Len(st.queue)]
             popped == [st EXCEPT !.queue = SubSeq(@, 1, Len(@) - 1),
                                  !.processed = @ + 1] IN
         Drain(jobs, names, Release(Dependents(jobs, names, job_name), popped))

\* a cycle check that reports only when no job at all can start
validate_circular_dependencies_stuck(workflow_path, workflow, names, degrees) ==
    IF workflow.jobs # EmptyMap
          /\ \A name \in DOMAIN workflow.jobs : InDegree(workflow.jobs)[name] > 0
    THEN <<ValidationError("CircularJobDependency", workflow_path, "", "", degrees)>>
    ELSE <<>>

\* `names` is the iteration order of workflow.jobs, `degrees` the one of in_degree
validate_circular_dependencies(workflow_path, workflow, names, degrees) ==
    LET st == Drain(workflow.jobs, names,
                    [in_degree |-> InDegree(workflow.jobs),
                     queue |-> SelectSeq(degrees,
                                  LAMBDA name : InDegree(workflow.jobs)[name] = 0),
                     processed |-> 0]) IN
    IF st.processed < Cardinality(DOMAIN workflow.jobs)
    THEN <<ValidationError("CircularJobDependency", workflow_path, "", "",
                           SelectSeq(degrees, LAMBDA name : st.in_degree[name] > 0))>>
    ELSE <<>>

\* the body of `for (job_name, job) in &workflow.jobs`
JobWarned(report, workflow_path, job_name, job_) ==
    IF job_.uses = None /\ job_.steps = <<>>
    THEN add_warning(report, ValidationWarning("JobWithNoSteps", workflow_path, job_name))
    ELSE report

JobUsesOf(workflow_path, job_name, job_, registry) ==
    IF job_.uses = None THEN [errors |-> <<>>, referenced |-> {}]
    ELSE validate_job_uses(workflow_path, job_name, job_.uses[1], registry)

OutputNames(outputs) == CHOOSE names \in Perms(DOMAIN outputs) : TRUE

validate_job(report, workflow_path, workflow, job_name, registry) ==
    LET job_ == workflow.jobs[job_name]
        used == JobUsesOf(workflow_path, job_name, job_, registry)
        errors == validate_job_dependencies(workflow_path, job_name, job_.needs,
                                            DOMAIN workflow.jobs)
                     \o used.errors
                     \o validate_step_ids(workflow_path, job_name, job_.steps)
                     \o validate_job_outputs(workflow_path, job_name, job_.outputs,
                                             OutputNames(job_.outputs), job_.steps) IN
    JobWarned([add_errors(report, errors) EXCEPT
                  !.referenced_reusables = @ \cup used.referenced],
              workflow_path, job_name, job_)

RECURSIVE validate_jobs(_, _, _, _, _)
validate_jobs(report, workflow_path, workflow, names, registry) ==
    IF names = <<>> THEN report
    ELSE validate_jobs(validate_job(report, workflow_path, workflow, Head(names), registry),
                       workflow_path, workflow, Tail(names), registry)

\* the body of `for (path, workflow) in registry.all_workflows()`
validate_workflow(report, path, registry, order) ==
    IF DOMAIN registry[path].jobs = {}
    THEN add_warning(report, ValidationWarning("EmptyWorkflow", path, ""))
    ELSE add_errors(validate_jobs(report, path, registry[path], order.jobs, registry),
                    validate_circular_dependencies(path, registry[path],
                                                   order.jobs, order.in_degree))

RECURSIVE validate_workflows(_, _, _, _)
validate_workflows(report, paths, registry, orders) ==
    IF paths = <<>> THEN report
    ELSE validate_workflows(validate_workflow(report, Head(paths), registry,
                                              orders[Head(paths)]),
                            Tail(paths), registry, orders)

\* for (path, _workflow) in registry.reusable_workflows()
RECURSIVE UnusedReusables(_, _, _)
UnusedReusables(report, paths, registry) ==
    IF paths = <<>> THEN report
    ELSE UnusedReusables(
             IF is_reusable(registry[Head(paths)])
                   /\ Head(paths) \notin report.referenced_reusables
             THEN add_warning(report, ValidationWarning("UnusedReusableWorkflow",
                                                        Head(paths), ""))
             ELSE report,
             Tail(paths), registry)

\* validate_registry, the maps visited in the iteration orders given:
\* `paths` for registry.workflows, orders[path].jobs for that workflow's
\* jobs, orders[path].in_degree for the in_degree map built from them
validate_registry(registry, paths, orders) ==
    UnusedReusables(validate_workflows(NewReport, paths, registry, orders), paths, registry)

---------------------------------------------------------------------------
(* SpecValidate: validate_registry on a registry of main.yaml and, or not,   *)
(* sub.yaml                                                                  *)

\* the needs of the jobs drawn for the validator
ValidateNeeds ==
    JobNeedsOver(JobNames, 1) \cup {NeedsMultiple(<<"a", "b">>), NeedsMultiple(<<"c", "c">>)}

\* a step of the given id
IdStep(id) == Step(id, "echo", EmptyMap, FALSE, <<>>, <<>>)

StepIds == {None, Some("s"), Some("t"), Some("")}

\* the jobs drawn for their steps and outputs, and for their uses
StepJobs ==
    {PlainJob(NeedsNone, outputs, steps) :
        outputs \in {EmptyMap, Map1("x", Interp(<<"steps", "s", "outputs", "y">>))},
        steps \in SeqsUpTo({IdStep(id) : id \in StepIds}, MaxSteps)}

UsesJobs ==
    {Job(NeedsNone, Some(uses), None, EmptyMap, EmptyMap, steps) :
        uses \in {"@file:sub.yaml", "@file:", "@file:missing.yaml", "sub.yaml"},
        steps \in {<<>>, <<IdStep(Some("s")), IdStep(Some("s"))>>}}

\* the job b beside the drawn job a
SecondJobs ==
    {PlainJob(NeedsSingle("a"), EmptyMap, steps) :
        steps \in {<<IdStep(Some("s"))>>, <<IdStep(Some("t")), IdStep(Some("t"))>>}}

MainOf(jobs) == Workflow("main", None, EmptyMap, jobs)

InitValidate ==
    /\ \/ \E keys \in SUBSET JobNames :
             \E needs \in [keys -> ValidateNeeds] :
                arg = [registry |->
                          Map1("main.yaml",
                               MainOf([name \in keys |->
                                          PlainJob(needs[name], EmptyMap, <<>>)]))]
       \/ \E a \in StepJobs \cup UsesJobs :
             \E main \in {MainOf(Map1("a", a))}
                            \cup {MainOf([name \in {"a", "b"} |-> IF name = "a" THEN a ELSE b]) :
                                     b \in SecondJobs} :
                \/ arg = [registry |-> Map1("main.yaml", main)]
                \/ \E sub \in SubWorkflows :
                      arg = [registry |-> RegistryBuild(Directory(main, sub))]
    /\ ret = <<>>
    /\ TopoIdle
    /\ RunIdle
    /\ LibIdle

\* the iteration orders of the maps of a workflow's jobs
JobOrders(jobs) ==
    {[jobs |-> names, in_degree |-> degrees] :
        names \in Perms(DOMAIN jobs), degrees \in Perms(DOMAIN jobs)}

IterationOrdersOf(registry) ==
    {orders \in [DOMAIN registry -> UNION {JobOrders(registry[path].jobs) :
                                              path \in DOMAIN registry}] :
        \A path \in DOMAIN registry : orders[path] \in JobOrders(registry[path].jobs)}

\* validate_registry(&registry)
ValidateRegistry ==
    /\ ret = <<>>
    /\ \E paths \in Perms(DOMAIN arg.registry) :
          \E orders \in IterationOrdersOf(arg.registry) :
             \E report \in {validate_registry(arg.registry, paths, orders)} :
                ret' = <<[errors |-> report.errors, warnings |-> report.warnings]>>
    /\ UNCHANGED <<arg, topoVars, runVars, libVars>>

NextValidate == ValidateRegistry

SpecValidate == InitValidate /\ [][NextValidate]_vars

\* the number of steps of the list that carry the id
Occurrences(steps, id) == Cardinality({i \in 1..Len(steps) : steps[i].id = Some(id)})

\* the number of DuplicateStepId errors of the report that name the
\* workflow, the job and the id
DuplicatesReported(errors, path, job_name, id) ==
    Cardinality({i \in 1..Len(errors) :
                    errors[i] = ValidationError("DuplicateStepId", path, job_name, id, <<>>)})

\* the ids the model's steps may carry
IdsOf(steps) == {steps[i].id[1] : i \in {k \in 1..Len(steps) : steps[k].id # None}}

\* C23: for every job of every workflow and every id, the report holds one
\* DuplicateStepId error naming the job and the id per step that repeats the
\* id (one fewer than the steps that carry it), and so none for a job whose
\* ids are pairwise distinct; every DuplicateStepId error names such a job.
C23_DuplicateStepIds ==
    ret # <<>> =>
        /\ \A path \in DOMAIN arg.registry : \A job_name \in DOMAIN arg.registry[path].jobs :
              \A id \in IdsOf(arg.registry[path].jobs[job_name].steps) :
                 DuplicatesReported(ret[1].errors, path, job_name, id)
                    = Occurrences(arg.registry[path].jobs[job_name].steps, id) - 1
        /\ \A i \in 1..Len(ret[1].errors) :
              ret[1].errors[i].kind = "DuplicateStepId" =>
                 /\ ret[1].errors[i].workflow \in DOMAIN arg.registry
                 /\ ret[1].errors[i].job \in DOMAIN arg.registry[ret[1].errors[i].workflow].jobs
                 /\ Occurrences(arg.registry[ret[1].errors[i].workflow]
                                   .jobs[ret[1].errors[i].job].steps,
                                ret[1].errors[i].what) >= 2

\* the three steps of job a carry the id s and the two of job b the id t:
\* two errors name a and s, one names b and t
C23_Witness ==
    /\ ret # <<>>
    /\ DOMAIN arg.registry["main.yaml"].jobs = {"a", "b"}
    /\ Len(arg.registry["main.yaml"].jobs["a"].steps) = 3
    /\ Occurrences(arg.registry["main.yaml"].jobs["a"].steps, "s") = 3
    /\ DuplicatesReported(ret[1].errors, "main.yaml", "a", "s") = 2
    /\ DuplicatesReported(ret[1].errors, "main.yaml", "b", "t") = 1

---------------------------------------------------------------------------
(* clock.rs: VirtualClock.  The counter is an AtomicU64 shared by the        *)
(* clones of the clock; every method makes one atomic access to it.  The     *)
(* model's word has NanosBits bits, so that the wrap of the counter and the  *)
(* truncation of a Duration are within reach.                                *)

\* bits of the counter's word
NanosBits == 2
\* threads that hold a clone of the clock
MaxThreads == 2
\* most operations completed on the clock
MaxClockOps == 4

\* the values of the word are 0..NanosModulus-1
NanosModulus == 2 ^ NanosBits

\* duration.as_nanos() as u64: a u128 cut to the word
as_u64(n) == n % NanosModulus

\* AtomicU64::swap in place of fetch_add: the addend replaces the counter
swap(counter, val) == val

\* AtomicU64::fetch_add: the new value of the counter (the addition wraps)
fetch_add(counter, val) == (counter + val) % NanosModulus

\* u64::saturating_sub
saturating_sub(a, b) == IF a >= b THEN a - b ELSE 0

\* VirtualClock::now, the Instant as its nanoseconds
now(counter) == counter

\* VirtualClock::current, the Duration as its nanoseconds
current(counter) == counter

\* VirtualClock::elapsed_since
elapsed_since(counter, instant) == saturating_sub(now(counter), instant)

\* VirtualClock::advance, set, reset: the new value of the counter
advance(counter, duration) == fetch_add(counter, as_u64(duration))
set(counter, duration) == as_u64(duration)
reset(counter) == 0

---------------------------------------------------------------------------
(* SpecClock: threads that hold clones of one VirtualClock call its methods  *)

\* the durations handed to advance and set, in nanoseconds
Durations == {NanosModulus - 1, NanosModulus + 1}

\* VirtualClock::new() and its clones, one per thread
InitClock ==
    /\ nanos = 0
    /\ threads = [t \in 1..MaxThreads |-> 0]
    /\ readings = <<>>
    /\ RngIdle
    /\ TopoIdle
    /\ RunIdle
    /\ PureIdle

\* thread t completes a method: the counter after it, and the record of the call
Completes(t, op, d, value, counter) ==
    /\ Len(readings) < MaxClockOps
    /\ nanos' = counter
    /\ threads' = [threads EXCEPT ![t] = @ + 1]
    /\ readings' = Append(readings, [op |-> op, d |-> d, value |-> value])
    /\ UNCHANGED <<rngVars, topoVars, runVars, pureVars>>

\* the Instants handed out by now() so far
Instants == {readings[i].value[1] : i \in {k \in 1..Len(readings) : readings[k].op = "now"}}

Now == \E t \in 1..MaxThreads : Completes(t, "now", 0, Some(now(nanos)), nanos)

Current == \E t \in 1..MaxThreads : Completes(t, "current", 0, Some(current(nanos)), nanos)

ElapsedSince ==
    \E t \in 1..MaxThreads : \E instant \in Instants :
        Completes(t, "elapsed_since", instant, Some(elapsed_since(nanos, instant)), nanos)

Advance ==
    \E t \in 1..MaxThreads : \E duration \in Durations :
        Completes(t, "advance", duration, None, advance(nanos, duration))

Set ==
    \E t \in 1..MaxThreads : \E duration \in Durations :
        Completes(t, "set", duration, None, set(nanos, duration))

Reset == \E t \in 1..MaxThreads : Completes(t, "reset", 0, None, reset(nanos))

NextClock == Now \/ Current \/ ElapsedSince \/ Advance \/ Set \/ Reset

SpecClock == InitClock /\ [][NextClock]_vars

\* C24 as claimed: over any sequence of now, elapsed_since, advance, set and
\* reset, every reading of now() or current() is greater than or equal to
\* every earlier reading.
C24_MonotonicReadings ==
    \A i, j \in 1..Len(readings) :
        (i < j /\ readings[i].op \in {"now", "current"} /\ readings[j].op \in {"now", "current"})
            => readings[j].value[1] >= readings[i].value[1]

\* the operations from position `from` on are advances and readings only
OnlyAdvancesSince(from) ==
    \A i \in from..Len(readings) : readings[i].op \notin {"set", "reset"}

\* the counter when the operation at `from` began: what the set or reset
\* just before it stored, or the 0 of new()
BaseAt(from) ==
    IF from = 1 \/ readings[from - 1].op = "reset" THEN 0
    ELSE as_u64(readings[from - 1].d)

\* the sum of a set of numbers
RECURSIVE SumOver(_, _)
SumOver(S, f) ==
    IF S = {} THEN 0 ELSE LET x == CHOOSE y \in S : TRUE IN f[x] + SumOver(S \ {x}, f)

\* the positions of the advances from `from` on, and their durations
AdvancesSince(from) == {i \in from..Len(readings) : readings[i].op = "advance"}

AdvancedBy(positions) == SumOver(positions, [i \in positions |-> readings[i].d])

\* C25: when the threads have completed advances (and readings) only since
\* the counter held the value v, the counter is v plus the sum of all the
\* durations advanced by, modulo 2^NanosBits, and every reading taken in
\* between is v plus the sum of some of these durations.
C25_NoLostAdvance ==
    \A from \in 1..(Len(readings) + 1) :
        ((from = 1 \/ readings[from - 1].op \in {"set", "reset"}) /\ OnlyAdvancesSince(from)) =>
            /\ nanos = (BaseAt(from) + AdvancedBy(AdvancesSince(from))) % NanosModulus
            /\ \A i \in from..Len(readings) :
                  readings[i].op \in {"now", "current"} =>
                      \E some \in SUBSET AdvancesSince(from) :
                          readings[i].value[1] = (BaseAt(from) + AdvancedBy(some)) % NanosModulus

\* two threads have advanced the clock, one of them has read it between the
\* two advances, and the sum has wrapped the counter
C25_Witness ==
    /\ Len(readings) = 3
    /\ threads[1] = 2 /\ threads[2] = 1
    /\ readings[1].op = "advance"
    /\ readings[2].op = "now" /\ readings[2].value = Some(NanosModulus - 1)
    /\ readings[3].op = "advance"
    /\ readings[1].d + readings[3].d >= NanosModulus
    /\ nanos = (readings[1].d + readings[3].d) % NanosModulus

\* the operation a step completes
Completed == readings'[Len(readings')]

\* C26 as claimed: advance(d) increases current() by exactly d, set(d) makes
\* current() equal to d, reset() makes it zero, and elapsed_since(t) is
\* current() minus t, or zero when the clock is below t.
C26_ExactArithmetic ==
    [][ /\ Completed.op = "advance" => current(nanos') = current(nanos) + Completed.d
        /\ Completed.op = "set" => current(nanos') = Completed.d
        /\ Completed.op = "reset" => current(nanos') = 0
        /\ Completed.op = "elapsed_since" =>
              Completed.value[1] = IF current(nanos) >= Completed.d
                                   THEN current(nanos) - Completed.d ELSE 0 ]_vars

---------------------------------------------------------------------------
(* determinism.rs: SeededRng.  The generator (ChaCha8Rng) is its key and     *)
(* the position in its key stream; a word of the stream is a function of     *)
(* the two, and the model's words are bytes.  Nothing below depends on       *)
(* which function it is.                                                     *)

\* the word of the key stream at a position
word(key, pos) == (key * 89 + pos * 37 + key * pos + 11) % 256

\* ChaCha8Rng::seed_from_u64
seed_from_u64(seed) == [key |-> seed, pos |-> 0]

\* SeededRng::with_seed
with_seed(seed) == [rng |-> seed_from_u64(seed), seed |-> seed]

\* SeededRng::new
new == with_seed(0)

\* name.hash(&mut hasher); hasher.finish() on DefaultHasher::new(), whose
\* keys are fixed: a function of the bytes of the name
RECURSIVE finish(_, _)
finish(name, h) ==
    IF name = "" THEN h
    ELSE finish(Tail(name), (h * 31 + byte(Head(name))) % 256)

\* SeededRng::from_scenario_name
from_scenario_name(name) == with_seed(finish(name, 7))

\* SeededRng::seed
seed(self) == self.seed

\* a Clone that copies the generator as it stands
clone_in_place(self) == self

\* impl Clone for SeededRng
clone(self) == with_seed(self.seed)

\* what a method returns: the value, and the generator after the draws
Drawn(value, rng) == [value |-> value, rng |-> rng]

\* rng.gen::<[w; n]>(): the next n words
gen(rng, n) ==
    Drawn([i \in 1..n |-> word(rng.key, rng.pos + i - 1)], [rng EXCEPT !.pos = @ + n])

\* rng.gen_range(low..high): words are drawn until one falls in the largest
\* multiple of the width; an empty range panics
RECURSIVE sample(_, _, _)
sample(rng, low, width) ==
    LET w == word(rng.key, rng.pos)
        next == [rng EXCEPT !.pos = @ + 1] IN
    IF w < (256 \div width) * width THEN Drawn(Some(low + (w % width)), next)
    ELSE sample(next, low, width)

gen_range(rng, low, high) ==
    IF low >= high THEN Drawn(None, rng) ELSE sample(rng, low, high - low)

\* (0..len).map(|_| CHARSET[rng.gen_range(0..CHARSET.len())]).collect()
RECURSIVE collect(_, _, _, _)
collect(rng, charset, len, text) ==
    IF len = 0 THEN Drawn(text, rng)
    ELSE LET idx == gen_range(rng, 0, Len(charset)) IN
         collect(idx.rng, charset, len - 1,
                 text \o SubSeq(charset, idx.value[1] + 1, idx.value[1] + 1))

\* items.shuffle(&mut rng): for i in (1..len).rev() { swap(i, gen_range(0..i + 1)) }
RECURSIVE shuffle_from(_, _, _)
shuffle_from(rng, items, i) ==
    IF i < 1 THEN Drawn(items, rng)
    ELSE LET j == gen_range(rng, 0, i + 1) IN
         shuffle_from(j.rng,
                      [items EXCEPT ![i + 1] = items[j.value[1] + 1],
                                    ![j.value[1] + 1] = items[i + 1]],
                      i - 1)

\* SeededRng::choose
choose(rng, items) ==
    IF items = <<>> THEN Drawn(None, rng)
    ELSE LET idx == gen_range(rng, 0, Len(items)) IN Drawn(Some(items[idx.value[1] + 1]), idx.rng)

\* the methods of SeededRng that draw, by name: [value, rng]
CallOn(rng, call) ==
    CASE call.method = "next_uuid" -> gen(rng, 16)
      [] call.method = "next_u64" -> gen(rng, 2)
      [] call.method = "next_u32" -> gen(rng, 1)
      [] call.method = "next_i64" -> gen(rng, 2)
      [] call.method = "next_f64" -> gen(rng, 2)
      [] call.method = "next_bool" -> Drawn(gen(rng, 1).value[1] >= 128, gen(rng, 1).rng)
      [] call.method \in {"next_string", "next_alphanumeric"} ->
            collect(rng, "ABCDEFGHIJKLMNOPQRSTUVWXYZabcdefghijklmnopqrstuvwxyz0123456789",
                    call.len, "")
      [] call.method = "next_hex" -> collect(rng, "0123456789abcdef", call.len, "")
      [] call.method = "next_range" -> gen_range(rng, call.min, call.max)
      [] call.method = "choose" -> choose(rng, call.items)
      [] OTHER -> shuffle_from(rng, call.items, Len(call.items) - 1)

---------------------------------------------------------------------------
(* SpecRng: two instances of SeededRng receive the same calls                *)

\* most calls made on an instance
MaxDraws == 2

Call(method, len, min, max, items) ==
    [method |-> method, len |-> len, min |-> min, max |-> max, items |-> items]

Calls ==
    {Call(method, 0, 0, 0, <<>>) :
        method \in {"next_uuid", "next_u64", "next_u32", "next_i64", "next_f64", "next_bool"}}
      \cup {Call(method, 2, 0, 0, <<>>) : method \in {"next_string", "next_alphanumeric", "next_hex"}}
      \cup {Call("next_range", 0, 1, 4, <<>>), Call("next_range", 0, 4, 4, <<>>)}
      \cup {Call(method, 0, 0, 0, items) :
               method \in {"choose", "shuffle"}, items \in {<<>>, <<"x", "y", "z">>}}

\* the ways an instance is created
Creation(method, seed_, name) == [method |-> method, seed |-> seed_, name |-> name]

Creations ==
    {Creation("new", 0, ""), Creation("with_seed", 0, ""), Creation("with_seed", 1, ""),
     Creation("from_scenario_name", 0, "a"), Creation("from_scenario_name", 0, "b")}

Create(creation) ==
    CASE creation.method = "new" -> new
      [] creation.method = "with_seed" -> with_seed(creation.seed)
      [] OTHER -> from_scenario_name(creation.name)

InitRng ==
    /\ \E created \in [1..2 -> Creations] :
          /\ rngs = [i \in 1..2 |-> Create(created[i])]
          /\ draws = [i \in 1..2 |-> [created |-> created[i], calls |-> <<>>]]
    /\ ClockIdle
    /\ TopoIdle
    /\ RunIdle
    /\ PureIdle

\* the call made on instance i: its record in draws and its generator after
Made(i, call) ==
    [draw |-> [call |-> call, value |-> CallOn(rngs[i].rng, call).value],
     rng |-> CallOn(rngs[i].rng, call).rng]

\* the same call is made on the first instance and then on the second
Draw ==
    /\ Len(draws[1].calls) < MaxDraws
    /\ \E call \in Calls :
          /\ rngs' = [i \in 1..2 |-> [rngs[i] EXCEPT !.rng = Made(i, call).rng]]
          /\ draws' = [i \in 1..2 |->
                          [draws[i] EXCEPT !.calls = Append(@, Made(i, call).draw)]]
    /\ UNCHANGED <<clockVars, topoVars, runVars, pureVars>>

\* the second instance is replaced by a clone of the first
Clone ==
    /\ draws[2].calls # <<>>
    /\ rngs' = [rngs EXCEPT ![2] = clone(rngs[1])]
    /\ draws' = [draws EXCEPT ![2] = [created |-> Creation("clone", 0, ""), calls |-> <<>>]]
    /\ UNCHANGED <<clockVars, topoVars, runVars, pureVars>>

NextRng == Draw \/ Clone

SpecRng == InitRng /\ [][NextRng]_vars

\* the first n calls made on the two instances are the same calls
SameCalls(n) == \A m \in 1..n : draws[1].calls[m].call = draws[2].calls[m].call

---------------------------------------------------------------------------
(* Claims about run_step and the step loops, checked under Spec and SpecJob *)

\* the steps recorded so far for the current job: after a step that failed
\* without continue-on-error, every later one is Skipped
SkippedAfterFailure ==
    \A i, j \in 1..Len(job.step_results) :
        (i < j /\ is_failed(job.step_results[i].result)
               /\ ~job.def.steps[i].continue_on_error)
            => job.step_results[j].result = Skipped

\* C28 as claimed: in a sub-workflow call, after a step of a sub-job fails
\* without continue-on-error, every later step of that sub-job is recorded
\* Skipped (and its callable is not invoked).
C28_SubJobSkipsAfterFailure ==
    pc = "ref_steps" => SkippedAfterFailure

\* one turn of run_job's loop that ran run_step on step job.i
RanStep ==
    /\ pc = "steps"
    /\ pc' = "steps"
    /\ ~job.should_skip
    /\ job.i <= Len(job.def.steps)
    /\ job'.i = job.i + 1

\* what the turn added to the trace
Added == SubSeq(events', Len(events) + 1, Len(events'))

AddedOf(ev) == {k \in 1..Len(Added) : Added[k].ev = ev}

\* every pre-assertion of the step evaluates to true in the context
PreAssertsHold(step, ctx) ==
    \A k \in 1..Len(step.pre_assert) :
        /\ evaluate_assertion(step.pre_assert[k], ctx).ok
        /\ evaluate_assertion(step.pre_assert[k], ctx).val[1]

\* every `with` value of the step evaluates without error in the context
WithEvaluates(step, ctx) ==
    \A key \in DOMAIN step.with : evaluate_value(step.with[key], ctx).ok

Ready(step, ctx) ==
    /\ PreAssertsHold(step, ctx)
    /\ step.uses \in StepRegistry
    /\ WithEvaluates(step, ctx)

\* C29: run_step dispatches the step's callable only if every pre-assertion
\* evaluated to true, the step's `uses` name is in the step registry and every
\* `with` value evaluated without error; in each other case the step result
\* is Failed, the callable is not invoked, the world is as it was and
\* ctx.steps is unchanged.
C29_DispatchOnlyWhenReady ==
    [][RanStep =>
          /\ AddedOf("call") # {} => Ready(job.def.steps[job.i], job.ctx)
          /\ ~Ready(job.def.steps[job.i], job.ctx) =>
                /\ is_failed(job'.step_results[job.i].result)
                /\ AddedOf("call") = {}
                /\ job'.world = job.world
                /\ job'.ctx.steps = job.ctx.steps]_vars

\* positions of the steps recorded Failed with the message `msg` whose
\* callable was not dispatched
FailedUndispatched(msg) ==
    {k \in 1..Len(job.step_results) :
        job.step_results[k].result = Failed(msg) /\ TraceOf("call", k) = {}}

\* a job of three steps is over: the first counted on the world and recorded
\* its outputs, the second named a callable that is not registered, the
\* third was not dispatched either; world and ctx.steps are as the first
\* step left them
C29_Witness ==
    /\ pc = "steps"
    /\ job.i = 4
    /\ Returned(1)
    /\ FailedUndispatched("Step not found") = {2}
    /\ TraceOf("call", 3) = {}
    /\ job.world.n = 1
    /\ DOMAIN job.ctx.steps = {"t"}

\* every post-assertion of the step evaluates to true once the callable
\* returned `outputs`
PostAssertsHold(step, ctx, outputs) ==
    \A k \in 1..Len(step.post_assert) :
        /\ evaluate_assertion(step.post_assert[k], with_outputs(ctx, outputs)).ok
        /\ evaluate_assertion(step.post_assert[k], with_outputs(ctx, outputs)).val[1]

\* C30: when the callable of a step with an id succeeds, ctx.steps[id] holds
\* its outputs whatever the post-assertions say, so that with a failing
\* post-assertion the step is Failed and its outputs are still there for the
\* later steps and for the job's outputs expressions; when the callable
\* fails, ctx.steps is not written and keeps the earlier value.
C30_OutputsRecordedBeforePostAsserts ==
    [][/\ (RanStep /\ job.def.steps[job.i].id # <<>>) =>
            /\ \A k \in AddedOf("return") :
                  /\ job.def.steps[job.i].id[1] \in DOMAIN job'.ctx.steps
                  /\ job'.ctx.steps[job.def.steps[job.i].id[1]] = Added[k].data
                  /\ ~PostAssertsHold(job.def.steps[job.i], job'.ctx, Added[k].data)
                        => is_failed(job'.step_results[job.i].result)
            /\ \A k \in AddedOf("call") :
                  ~Added[k].ok => /\ job'.ctx.steps = job.ctx.steps
                                  /\ is_failed(job'.step_results[job.i].result)
       /\ (pc = "steps" /\ pc' # "steps" /\ "s" \in DOMAIN job.ctx.steps
                        /\ "y" \in DOMAIN job.ctx.steps["s"]) =>
            wfr'.job_outputs[job.name]["x"] = job.ctx.steps["s"]["y"]]_vars

\* three steps with the id `s` have run: the first passed with y = "x1", the
\* second returned y = "x2" and failed its post-assertion, the callable of
\* the third failed; steps.s still holds the outputs of the second
C30_Witness ==
    /\ pc = "steps"
    /\ job.i = 4
    /\ \A k \in 1..3 : job.def.steps[k].id = Some("s")
    /\ Returned(1) /\ KindOf(1) = "Passed"
    /\ Returned(2) /\ KindOf(2) = "Failed"
    /\ TraceOf("call", 3) # {} /\ ~Returned(3)
    /\ job.ctx.steps["s"]["y"] = VStr("x2")

---------------------------------------------------------------------------
(* run_job's context (Spec) *)

\* the jobs the job under way lists in its needs
Declared == Range(as_vec(job.def.needs))

\* reading needs.<d>.outputs.x in the context of the job under way
ReadNeed(d) == evaluate(Interp(<<"needs", d, "outputs", "x">>), job.ctx)

\* C31: in run_job the context's needs map has an entry for job d if and only
\* if d is listed in the job's own needs and d has recorded outputs, and the
\* entry is d's recorded outputs; the outputs of a completed job the job does
\* not declare are not readable (needs.<d>.outputs.* is an Expression error);
\* env is the workflow env overridden key by key by the job env.
C31_NeedsAreDeclaredOutputs ==
    pc = "steps" =>
        /\ DOMAIN job.ctx.needs = Declared \cap DOMAIN wfr.job_outputs
        /\ \A d \in DOMAIN job.ctx.needs : job.ctx.needs[d] = wfr.job_outputs[d]
        /\ \A d \in (DOMAIN wfr.job_outputs) \ Declared :
              ~ReadNeed(d).ok /\ ReadNeed(d).err[1].kind = "Expression"
        /\ DOMAIN job.ctx.env = (DOMAIN wfr.workflow.env) \cup (DOMAIN job.def.env)
        /\ \A key \in DOMAIN job.def.env : job.ctx.env[key] = job.def.env[key]
        /\ \A key \in (DOMAIN wfr.workflow.env) \ (DOMAIN job.def.env) :
              job.ctx.env[key] = wfr.workflow.env[key]

\* job c, which needs only b, has run its steps after a recorded its output x: its
\* first step could not read needs.a.outputs.x and was not dispatched, its
\* second was dispatched with the job's v and the workflow's w
C31_Witness ==
    /\ pc = "steps"
    /\ wfr.workflow.name = "needs"
    /\ job.name = "c"
    /\ job.i = 3
    /\ Declared = {"b"}
    /\ "x" \in DOMAIN wfr.job_outputs["a"]
    /\ DOMAIN job.ctx.needs = {"b"}
    /\ KindOf(1) = "Failed" /\ TraceOf("call", 1) = {}
    /\ \E k \in TraceOf("call", 2) :
          events[k].data = [key \in {"v", "w"} |-> IF key = "v" THEN VStr("x2") ELSE VStr("x1")]

---------------------------------------------------------------------------
(* The hooks of run_job (SpecJob) *)

\* the calls of register that built the engine's registry
RegisteredDefs == CHOOSE defs \in Registrations : Registered(defs) = hooks

\* the functions registered as `kind`, in registration order
HooksOf(kind) == SelectSeq(RegisteredDefs, LAMBDA d : d.kind = kind)

\* one run of each hook of a kind, in registration order
RunsOf(kind, step, result) ==
    [h \in 1..Len(HooksOf(kind)) |->
        [kind |-> kind, f |-> HooksOf(kind)[h].f, step |-> step, result |-> result]]

\* the step hooks due for the recorded steps: none for a Skipped step, else
\* every BeforeStep hook, then every AfterStep hook with the step's result
RECURSIVE StepRuns(_)
StepRuns(results) ==
    IF results = <<>> THEN <<>>
    ELSE StepRuns(SubSeq(results, 1, Len(results) - 1))
            \o (IF results[Len(results)].result = Skipped THEN <<>>
                ELSE RunsOf("BeforeStep", Len(results), <<>>)
                        \o RunsOf("AfterStep", Len(results), <<results[Len(results)].result>>))

IsJobHook(e) == e.ev = "hook" /\ e.job # ""

\* the scenario and step hooks that ran, in the order they ran
HookTrace ==
    [k \in 1..Len(SelectSeq(events, IsJobHook)) |->
        [kind |-> SelectSeq(events, IsJobHook)[k].data.kind,
         f |-> SelectSeq(events, IsJobHook)[k].data.f,
         step |-> SelectSeq(events, IsJobHook)[k].step,
         result |-> SelectSeq(events, IsJobHook)[k].data.result]]

\* positions in the trace
EventsAt(ev) == {k \in 1..Len(events) : events[k].ev = ev}
HookAt(kind) == {k \in EventsAt("hook") : events[k].data.kind = kind}
StepAt(i) == {k \in EventsAt("call") \cup EventsAt("return") : events[k].step = i}

\* every hook runs on the world of the job, after the world was created;
\* the BeforeScenario hooks before anything of a step, the BeforeStep hooks
\* of a step before its callable and the AfterStep hooks after it, the
\* AfterScenario hooks after everything of every step
HooksInPlace ==
    /\ \A h \in {k \in EventsAt("hook") : events[k].job # ""} :
          \E w \in EventsAt("world_new") : w < h /\ events[w].world = events[h].world
    /\ \A h \in HookAt("BeforeScenario") :
          \A k \in 1..Len(events) : events[k].step > 0 => h < k
    /\ \A h \in HookAt("BeforeStep") : \A k \in StepAt(events[h].step) : h < k
    /\ \A h \in HookAt("AfterStep") : \A k \in StepAt(events[h].step) : k < h
    /\ \A h \in HookAt("AfterScenario") :
          \A k \in 1..Len(events) : events[k].step > 0 => k < h

\* C32: in run_job the BeforeScenario hooks run once after the world is
\* created and before the first step; for each step that is not Skipped all
\* BeforeStep hooks run in registration order, then the step, then all
\* AfterStep hooks in registration order with that step's result; a Skipped
\* step triggers no step hook; the AfterScenario hooks run once after the
\* last step, whatever the steps' results; no hook runs for a job whose world
\* creation failed.
C32_HookOrder ==
    /\ pc = "steps" =>
          HookTrace = RunsOf("BeforeScenario", 0, <<>>) \o StepRuns(job.step_results)
    /\ (pc = "wf_loop" /\ Len(wfr.job_results) = 1) =>
          IF EventsAt("world_failed") # {} THEN HookTrace = <<>>
          ELSE HookTrace = RunsOf("BeforeScenario", 0, <<>>)
                              \o StepRuns(wfr.job_results[1].steps)
                              \o RunsOf("AfterScenario", 0, <<>>)
    /\ pc \in {"steps", "wf_loop"} => HooksInPlace

\* a job of three steps is over with two BeforeStep and two AfterStep hooks
\* registered: the first step passed, the second failed, the third was
\* skipped; the hooks ran around the first two steps only, and the
\* AfterScenario hook ran
C32_Witness ==
    /\ pc = "wf_loop"
    /\ Len(wfr.job_results) = 1
    /\ Len(HooksOf("BeforeStep")) = 2
    /\ Len(HooksOf("AfterStep")) = 2
    /\ Len(wfr.job_results[1].steps) = 3
    /\ wfr.job_results[1].steps[1].result = Passed
    /\ is_failed(wfr.job_results[1].steps[2].result)
    /\ wfr.job_results[1].steps[3].result = Skipped
    /\ Cardinality(HookAt("BeforeStep")) = 4
    /\ Cardinality(HookAt("AfterStep")) = 4
    /\ Cardinality(HookAt("AfterScenario")) = 1
    /\ StepAt(1) # {}

---------------------------------------------------------------------------
(* validate_registry and the needs relation (SpecValidate) *)

\* the errors of the kind that the report holds for the workflow
ErrorsOf(kind, path) ==
    {i \in 1..Len(ret[1].errors) :
        ret[1].errors[i].kind = kind /\ ret[1].errors[i].workflow = path}

\* the jobs of the workflow that lie on a cycle of its needs relation
OnCycle(jobs) == {j \in DOMAIN jobs : j \in Reach(jobs, j)}

\* C33 as claimed: validate_registry reports CircularJobDependency for a
\* workflow exactly when its needs relation contains a cycle, and the jobs of
\* the reported chain are the jobs that form a cycle: an acyclic workflow with
\* a needs entry naming an absent job gets JobDependencyNotFound and no
\* CircularJobDependency, and jobs that merely depend on a cycle are not
\* listed.
C33_CircularIffCycle ==
    ret # <<>> =>
        \A path \in DOMAIN arg.registry :
            /\ ErrorsOf("CircularJobDependency", path) # {} <=> ~Acyclic(arg.registry[path].jobs)
            /\ \A i \in ErrorsOf("CircularJobDependency", path) :
                  Range(ret[1].errors[i].chain) = OnCycle(arg.registry[path].jobs)
            /\ ~AllDepsExist(arg.registry[path].jobs) =>
                  ErrorsOf("JobDependencyNotFound", path) # {}

\* the workflow defines workflow_call outputs
HasCallOutputs(wf) ==
    /\ wf.on # <<>>
    /\ wf.on[1].workflow_call # <<>>
    /\ wf.on[1].workflow_call[1].outputs # EmptyMap

\* the job's uses is an @file: reference to a workflow of the registry
\* that defines no workflow_call outputs
CallsWithoutOutputs(registry, job_) ==
    /\ job_.uses # <<>>
    /\ is_file_ref(job_.uses[1])
    /\ parse_file_ref(job_.uses[1]).ok
    /\ parse_file_ref(job_.uses[1]).val[1] \in DOMAIN registry
    /\ ~HasCallOutputs(registry[parse_file_ref(job_.uses[1]).val[1]])

\* C34 as claimed: the report holds a ReusableWorkflowMissingOutputs error
\* for every job whose `uses` is an @file: reference to a workflow of the
\* registry that defines no workflow_call outputs.
C34_MissingOutputsReported ==
    ret # <<>> =>
        \A path \in DOMAIN arg.registry : \A name \in DOMAIN arg.registry[path].jobs :
            CallsWithoutOutputs(arg.registry, arg.registry[path].jobs[name]) =>
                \E i \in ErrorsOf("ReusableWorkflowMissingOutputs", path) :
                    ret[1].errors[i].job = name

---------------------------------------------------------------------------
(* run() and a workflow that does not sort (Spec) *)

\* the workflows run() runs, in its order
Runnable ==
    IF single # <<>> THEN <<dir[single[1]]>>
    ELSE SelectSeq(dir, LAMBDA f : ~is_reusable(f.wf))

\* the jobs have a cycle or a needs entry that names no job
Unsortable(jobs) == ~Acyclic(jobs) \/ ~AllDepsExist(jobs)

\* the positions in the trace where run_workflow was entered, in order
Entered == SelectSeq([k \in 1..Len(events) |-> k],
                     LAMBDA k : events[k].ev \in {"workflow", "toposort_error"})

\* C35: when toposort_jobs fails for a workflow, run_workflow executes no job
\* of it (no world is created, no step or hook is dispatched) and returns a
\* result with zero jobs; run() goes on with the remaining workflows and
\* still runs the AfterAll hooks.
C35_UnsortedWorkflowIsSkipped ==
    pc = "done" =>
        /\ Len(run.all_results) = Len(Runnable)
        /\ Len(Entered) = Len(Runnable)
        /\ \A n \in 1..Len(Runnable) :
              Unsortable(Runnable[n].wf.jobs) =>
                  /\ run.all_results[n] = WorkflowResult(Runnable[n].wf.name, <<>>)
                  /\ events[Entered[n]].ev = "toposort_error"
                  /\ events[Entered[n] + 1].ev \in {"workflow", "toposort_error", "after_all"}
        /\ \E k \in EventsAt("after_all") :
              /\ \A n \in 1..Len(Entered) : Entered[n] < k
              /\ \A h \in HookAt("AfterAll") : k < h
        /\ Cardinality(HookAt("AfterAll")) = Len(hooks.after_all)

\* run() is over on a directory whose first workflow has a cycle and whose
\* second sorts: the first has a result without jobs, the second ran its job
\* on the only world created, and the AfterAll hook ran
C35_Witness ==
    /\ pc = "done"
    /\ Len(Runnable) = 2
    /\ ~Acyclic(Runnable[1].wf.jobs)
    /\ run.all_results[1].jobs = <<>>
    /\ Len(run.all_results[2].jobs) = 1
    /\ passed(run.all_results[2].jobs[1])
    /\ worlds = 1
    /\ Cardinality(HookAt("AfterAll")) = 1

---------------------------------------------------------------------------
(* SpecPath: a path under steps, needs or jobs (expr.rs) as the expression   *)
(* of a `${{ }}` string and as an operand of an assertion                    *)

\* most segments of a drawn path after the output field
MaxRest == 2

PathRoots == {"steps", "needs", "jobs"}

PathSegments == {"k", "n", "0", "1", "zz"}

\* the values of the output field f
FieldValues ==
    { VObj([key \in {"k", "n"} |-> IF key = "k" THEN VArr(<<VStr("x1"), VNum(7)>>) ELSE VNum(1)]),
      VArr(<<VObj(Map1("k", VStr("x1"))), VNum(7)>>),
      VStr("x1"),
      VNum(7) }

\* the context in which <root>.j.outputs.f is v
PathContext(root, v) ==
    [NewContext EXCEPT ![root] = Map1("j", Map1("f", v))]

InitPath ==
    /\ \E root \in PathRoots : \E v \in FieldValues : \E rest \in SeqsUpTo(PathSegments, MaxRest) :
          arg = [root |-> root, base |-> v, rest |-> rest,
                 path |-> <<root, "j", "outputs", "f">> \o rest,
                 ctx |-> PathContext(root, v)]
    /\ ret = <<>>
    /\ TopoIdle
    /\ RunIdle
    /\ LibIdle

\* evaluate("${{ <path> }}", ctx)
Interpolate ==
    /\ ret = <<>>
    /\ ret' = <<[as |-> "interpolation", result |-> evaluate(Interp(arg.path), arg.ctx)]>>
    /\ UNCHANGED <<arg, topoVars, runVars, libVars>>

\* evaluate_operand("<path>", ctx), as evaluate_bool_expr calls it
Operand ==
    /\ ret = <<>>
    /\ ret' = <<[as |-> "operand", result |-> evaluate_operand(PathOp(arg.path), arg.ctx)]>>
    /\ UNCHANGED <<arg, topoVars, runVars, libVars>>

NextPath == Interpolate \/ Operand

SpecPath == InitPath /\ [][NextPath]_vars

\* the value reached from v by following each segment as an object key or
\* as an array index: <<it>>, or <<>> when a key is missing, an index is out
\* of bounds or the value has nothing to descend into
RECURSIVE Reached(_, _)
Reached(v, rest) ==
    IF rest = <<>> THEN <<v>>
    ELSE IF v.k = "obj" /\ Head(rest) \in DOMAIN v.fields
    THEN Reached(v.fields[Head(rest)], Tail(rest))
    ELSE IF v.k = "arr" /\ \E i \in 1..Len(v.items) : ToString(i - 1) = Head(rest)
    THEN Reached(v.items[CHOOSE i \in 1..Len(v.items) : ToString(i - 1) = Head(rest)],
                 Tail(rest))
    ELSE <<>>

\* C36 as claimed: steps.<ID>.outputs.<F>.<rest>, needs.<J>.outputs.<F>.<rest>
\* and jobs.<J>.outputs.<F>.<rest> yield the value reached inside field F by
\* following each remaining segment as an object key or array index, both in
\* `${{ }}` interpolation (as a string) and as an assertion operand; a missing
\* key or an index out of bounds yields an Expression error.
C36_PathDescent ==
    ret # <<>> =>
        IF Reached(arg.base, arg.rest) = <<>>
        THEN ~ret[1].result.ok /\ ret[1].result.err[1].kind = "Expression"
        ELSE ret[1].result = Ok(IF ret[1].as = "operand"
                                THEN Reached(arg.base, arg.rest)[1]
                                ELSE StringOf(Reached(arg.base, arg.rest)[1]))

\* toposort_jobs returns an order for the jobs, whatever the iteration order
Sorts(jobs) == \A keys \in Perms(DOMAIN jobs) : toposort_jobs(jobs, keys).ok

\* toposort_jobs returns an error for the jobs, whatever the iteration order
SortFails(jobs) == \A keys \in Perms(DOMAIN jobs) : ~toposort_jobs(jobs, keys).ok

\* C37: the scheduler and the validator agree on every workflow:
\* toposort_jobs returns an order if and only if validate_registry reports
\* neither JobDependencyNotFound nor CircularJobDependency for the workflow.
C37_SchedulerAgreesWithValidator ==
    ret # <<>> =>
        \A path \in DOMAIN arg.registry :
            /\ Sorts(arg.registry[path].jobs) \/ SortFails(arg.registry[path].jobs)
            /\ Sorts(arg.registry[path].jobs)
                  <=> /\ ErrorsOf("JobDependencyNotFound", path) = {}
                      /\ ErrorsOf("CircularJobDependency", path) = {}

\* main.yaml has three jobs, all needs name a job, a and b need one another
\* and c needs nothing: toposort_jobs fails and the report holds a
\* CircularJobDependency error and no JobDependencyNotFound
C37_Witness ==
    /\ ret # <<>>
    /\ DOMAIN arg.registry = {"main.yaml"}
    /\ DOMAIN arg.registry["main.yaml"].jobs = {"a", "b", "c"}
    /\ AllDepsExist(arg.registry["main.yaml"].jobs)
    /\ OnCycle(arg.registry["main.yaml"].jobs) = {"a", "b"}
    /\ NeedsOf(arg.registry["main.yaml"].jobs, "c") = {}
    /\ SortFails(arg.registry["main.yaml"].jobs)
    /\ ErrorsOf("CircularJobDependency", "main.yaml") # {}
    /\ ErrorsOf("JobDependencyNotFound", "main.yaml") = {}

---------------------------------------------------------------------------
(* SpecEvaluate: evaluate (expr.rs) on the characters of a string with     *)
(* `${{ env.NAME }}` occurrences, in a context whose env values are         *)
(* characters too                                                            *)

\* most pieces of a drawn input
MaxInputPieces == 2

InputPieces == {"${{ env.x }}", "${{ env.y }}", "a", " "}

\* the values of env.x and env.y; y may be undefined
EnvValues == {"v", "", "${{ env.y }}", "${{ env.x }}"}

Envs ==
    {Map1("x", vx) : vx \in EnvValues}
        \cup {[key \in {"x", "y"} |-> IF key = "x" THEN vx ELSE vy] :
                 vx \in EnvValues, vy \in {"v", "y"}}

InitEvaluate ==
    /\ \E pieces \in SeqsUpTo(InputPieces, MaxInputPieces) : \E env \in Envs :
          arg = [input |-> Concat(pieces), env |-> env]
    /\ ret = <<>>
    /\ TopoIdle
    /\ RunIdle
    /\ LibIdle

\* evaluate(input, &ctx)
Evaluate ==
    /\ ret = <<>>
    /\ ret' = <<evaluate(captures_iter(arg.input),
                         [NewContext EXCEPT !.env = [key \in DOMAIN arg.env |-> Str(arg.env[key])]])>>
    /\ UNCHANGED <<arg, topoVars, runVars, libVars>>

NextEvaluate == Evaluate

SpecEvaluate == InitEvaluate /\ [][NextEvaluate]_vars

\* the name NAME of the occurrence `${{ env.NAME }}`
EnvNameOf(part) == part.e[1].l.path[2]

\* every occurrence of the input names a defined env variable
AllDefined == \A i \in 1..Len(captures_iter(arg.input)) :
                 IsEx(captures_iter(arg.input)[i]) =>
                    EnvNameOf(captures_iter(arg.input)[i]) \in DOMAIN arg.env

\* the input with every occurrence replaced by the value of its own
\* expression, and nothing else touched
RECURSIVE Substituted(_, _)
Substituted(parts, env) ==
    IF parts = <<>> THEN ""
    ELSE (IF IsEx(Head(parts)) THEN env[EnvNameOf(Head(parts))] ELSE Head(parts).lit)
            \o Substituted(Tail(parts), env)

\* C38 as claimed: evaluate replaces each `${{ }}` occurrence of the input
\* exactly once with the value of its own expression; text that a value
\* brought in is never treated as an expression nor replaced by a later
\* substitution, so the result is the input with every occurrence
\* independently replaced, whatever the values contain.
C38_IndependentSubstitution ==
    ret # <<>> =>
        IF AllDefined
        THEN ret[1].ok /\ Text(ret[1].val[1]) = Substituted(captures_iter(arg.input), arg.env)
        ELSE ~ret[1].ok

---------------------------------------------------------------------------
(* run_workflow's loops and failures (Spec) *)

\* the results run_workflow has pushed for the job `name`, in order
ResultsOf(name) == SelectSeq(wfr.job_results, LAMBDA r : r.name = name)

MatrixOf(results) == [i \in 1..Len(results) |-> results[i].matrix]

\* rows is what `matrix_combos` is for the job j
IsCombos(j, rows) ==
    IF j.strategy = <<>> THEN rows = <<EmptyMap>>
    ELSE \E keys \in Perms(DOMAIN j.strategy[1].matrix.dimensions) :
            rows = expand_matrix(j.strategy[1], keys)

\* the call of run_file_ref_job for j is made and returns Ok
CallReturns(j) ==
    /\ run.registry # <<>>
    /\ resolve_file_ref(run.registry[1], j.uses[1]).ok
    /\ \E keys \in Perms(DOMAIN resolve_file_ref(run.registry[1], j.uses[1]).val[1].jobs) :
          toposort_jobs(resolve_file_ref(run.registry[1], j.uses[1]).val[1].jobs, keys).ok

PositionOf(name) == CHOOSE p \in 1..Len(wfr.job_order) : wfr.job_order[p] = name

\* the job at position p of the order has had its turn: one result for each
\* of its rows, in the rows' order; a workflow call has its one result
TurnTaken(p) ==
    LET name == wfr.job_order[p]
        j == wfr.workflow.jobs[name] IN
    IF IsFileRefJob(j)
    THEN Len(ResultsOf(name)) = (IF CallReturns(j) THEN 1 ELSE 0)
    ELSE IsCombos(j, MatrixOf(ResultsOf(name)))

\* the job at position wfr.idx is at its turn: the rows before wfr.row have
\* their result, the others have none
TurnOpen ==
    IF wfr.row = 0 THEN ResultsOf(CurrentJobName) = <<>>
    ELSE /\ wfr.row \in 1..Len(wfr.rows)
         /\ IsCombos(CurrentJob, wfr.rows)
         /\ MatrixOf(ResultsOf(CurrentJobName)) = SubSeq(wfr.rows, 1, wfr.row - 1)

EveryTurnTaken ==
    wfr # <<>> =>
        /\ \A p \in 1..Len(wfr.job_order) :
              /\ p < wfr.idx => TurnTaken(p)
              /\ p = wfr.idx => TurnOpen
              /\ p > wfr.idx => ResultsOf(wfr.job_order[p]) = <<>>
        /\ \A m, n \in 1..Len(wfr.job_results) :
              m < n => PositionOf(wfr.job_results[m].name)
                          <= PositionOf(wfr.job_results[n].name)

\* the job that runs reads, for each of its needs that has a result, the
\* outputs of the latest one, whether that job passed or not
FailedNeedsExposed ==
    pc = "steps" =>
        \A need \in Range(as_vec(job.def.needs)) :
           ResultsOf(need) # <<>> =>
              /\ need \in DOMAIN job.ctx.needs
              /\ job.ctx.needs[need] = ResultsOf(need)[Len(ResultsOf(need))].outputs

\* run_job returns: the result pushed holds the declared outputs evaluated
\* over the job's context, whatever the steps' results are
OutputsEvaluated ==
    pc = "steps" /\ pc' # "steps" =>
        /\ wfr'.job_results = Append(wfr.job_results, wfr'.job_results[Len(wfr'.job_results)])
        /\ wfr'.job_results[Len(wfr'.job_results)].steps = job.step_results
        /\ wfr'.job_results[Len(wfr'.job_results)].outputs
              = EvalOutputs(job.def.outputs, job.ctx)

\* C39: every job of the order and every matrix row of it is run exactly
\* once regardless of earlier failures: at every point of run_workflow the
\* jobs before the current one have one result for each of their rows, in
\* order (a workflow call has one result exactly when its call returns Ok,
\* which no earlier result influences), the current job has one for each row
\* before the current row, a failed row or dependency changes nothing of it
\* (fail-fast has no effect), and the outputs of a failed job are evaluated
\* and are what its dependents read.
C39_EveryJobAndRowRunsOnce ==
    [][EveryTurnTaken' /\ FailedNeedsExposed' /\ OutputsEvaluated]_vars

\* workflow `rows` with fail-fast set is at its end: the first row of a
\* failed, the four rows all ran, b failed and recorded an output, and the
\* step of c that reads it passed
C39_Witness ==
    /\ pc = "wf_loop"
    /\ wfr.workflow.name = "rows"
    /\ wfr.idx > Len(wfr.job_order)
    /\ wfr.workflow.jobs["a"].strategy[1].fail_fast
    /\ Len(ResultsOf("a")) = 4
    /\ ~passed(ResultsOf("a")[1])
    /\ ResultsOf("a")[1].steps # <<>>
    /\ passed(ResultsOf("a")[2])
    /\ Len(ResultsOf("b")) = 1
    /\ ~passed(ResultsOf("b")[1])
    /\ "w" \in DOMAIN ResultsOf("b")[1].outputs
    /\ Len(ResultsOf("c")) = 1
    /\ passed(ResultsOf("c")[1])
    /\ ResultsOf("c")[1].steps # <<>>

---------------------------------------------------------------------------
(* The outputs a matrix job leaves to its dependents (Spec) *)

LastRowOf(name) == ResultsOf(name)[Len(ResultsOf(name))]

HasMatrix(name) == wfr.workflow.jobs[name].strategy # <<>>

\* what `${{ needs.<need>.outputs.<key> }}` is in the context ctx
ReadOutput(ctx, need, key) ==
    evaluate_value(VString(Interp(<<"needs", need, "outputs", key>>)), ctx)

\* job_outputs holds for a matrix job the outputs of its latest row
LastRowRecorded ==
    wfr # <<>> =>
        \A name \in DOMAIN wfr.workflow.jobs :
           HasMatrix(name) /\ ResultsOf(name) # <<>> =>
              /\ name \in DOMAIN wfr.job_outputs
              /\ wfr.job_outputs[name] = LastRowOf(name).outputs

\* a dependent reads each declared output of a matrix job as the last row
\* recorded it, and not at all when the last row did not record it
LastRowRead ==
    pc = "steps" =>
        \A need \in Range(as_vec(job.def.needs)) :
           need \in DOMAIN wfr.workflow.jobs /\ HasMatrix(need) /\ ResultsOf(need) # <<>> =>
              \A key \in DOMAIN wfr.workflow.jobs[need].outputs :
                 IF key \in DOMAIN LastRowOf(need).outputs
                 THEN /\ ReadOutput(job.ctx, need, key).ok
                      /\ ReadOutput(job.ctx, need, key).val[1] = LastRowOf(need).outputs[key]
                 ELSE ~ReadOutput(job.ctx, need, key).ok

\* C40: each row of a matrix job overwrites the job's recorded outputs: the
\* outputs recorded for the job are those of the latest row run (the empty
\* map when that row's world creation failed), and a dependent reads through
\* needs.<job>.outputs.* exactly the outputs of the last row, never a merge
\* of the rows.
C40_LastRowWins == LastRowRecorded /\ LastRowRead

\* job b of workflow `rows` has run its first step: the last row of a had no
\* world and left no outputs, an earlier row recorded x, and b's read of
\* needs.a.outputs.x failed
C40_Witness ==
    /\ pc = "steps"
    /\ wfr.workflow.name = "rows"
    /\ job.name = "b"
    /\ job.i > 1
    /\ Len(ResultsOf("a")) > 1
    /\ "x" \in DOMAIN ResultsOf("a")[1].outputs
    /\ LastRowOf("a").steps = <<>>
    /\ LastRowOf("a").outputs = EmptyMap
    /\ job.ctx.needs["a"] = EmptyMap
    /\ is_failed(job.step_results[1].result)

====
